---- MODULE Spec2Model ----
(***************************************************************************)
(* Shipyard interview system: the pillar/topic interview loop, the oracle  *)
(* backed classifiers, the conversation state and the phase orchestrator.  *)
(*                                                                         *)
(* Text is modelled as a sequence of atoms (words and whitespace).  str    *)
(* operations (upper, strip, the "in" substring test, re.sub) act on the   *)
(* atoms the way the Python operations act on the characters.              *)
(***************************************************************************)
EXTENDS Integers, Sequences, FiniteSets, TLC

VARIABLES
    \* StateManager (core/state_manager.py)
    initialized,        \* self.state is not None
    chat_history,       \* state.chat_history: pillar -> list of {role, content}
    all_conversations,  \* state.state["all_conversations"]
    follow_up_counts,   \* state.state["follow_up_counts"]: key -> int
    user_profile,       \* state.state["user_profile"]
    summaries,          \* state.summaries: pillar -> summary
    current_document,   \* state.state["current_document"]: section -> text
    \* main() and the frame of the running agent
    pc,                 \* the suspension point / control location
    phase,              \* the step of main() being executed
    topic_idx,          \* position of the for-loop over the topic list
    follow_up_count,    \* local of _process_topic
    topic_complete,     \* local of _process_topic
    agent_response,     \* local of _process_topic
    user_answer,        \* local of _process_topic
    document,           \* local of main / review_loop
    feedback,           \* local of review_loop
    files,              \* files written so far
    exit_status,        \* process exit status (Running until the process exits)
    \* observation of the run
    trace,              \* the calls made so far, in call order
    events,             \* number of non-default environment choices so far
    scope,              \* where the environment departs from the plain run
    \* classifier harness
    cls_pc, cls_name, cls_outcome, cls_result,
    \* StateManager and prompt rendering under arbitrary call sequences
    mgr,                \* StateManager.state (an InterviewState, or not set)
    exported,         \* the dict last returned by export_state
    api_result,         \* outcome of the last call
    api_calls,          \* number of calls made so far
    \* OpenAIClient (core/openai_client.py)
    reasoning_storage,  \* self.reasoning_storage
    stored,             \* every entry handed to append so far, in call order
    recent              \* the last get_recent_reasoning_context call

smVars   == <<initialized, chat_history, all_conversations, follow_up_counts,
              user_profile, summaries, current_document>>
runVars  == <<pc, phase, topic_idx, follow_up_count, topic_complete,
              agent_response, user_answer, document, feedback, files, exit_status>>
obsVars  == <<trace, events>>
clsVars  == <<cls_pc, cls_name, cls_outcome, cls_result>>
apiVars  == <<mgr, exported, api_result, api_calls>>
clientVars == <<reasoning_storage, stored, recent>>
vars     == <<smVars, runVars, obsVars, clsVars, apiVars, clientVars, scope>>

(***************************************************************************)
(* Bounds                                                                  *)
(***************************************************************************)
\* number of topics taken from the head of each pillar's topic list
MaxTopics == 2
\* number of departures of the environment from the plain run (an oracle
\* failure, an unusual input, an unexpected verdict, a topic that needs
\* follow-ups, a review choice other than save, an interrupt) inside one step
\* of main()
MaxEvents == 2
\* number of departures when they may fall in any step of main()
MaxRunEvents == 1
\* number of StateManager / prompt calls in one call sequence
MaxCalls == 5
\* number of store_reasoning_summary calls made on one client
MaxStores == 11
\* length of an oracle response handed to a classifier, in atoms
MaxRespLen == 2

None == "None"

\* exit_status while the process has not exited
Running == -1

(***************************************************************************)
(* Text                                                                    *)
(***************************************************************************)
WS == {" ", "\t"}

\* str.upper() on one atom
UpperAtom(a) ==
    CASE a = "follow_up_needed" -> "FOLLOW_UP_NEEDED"
      [] a = "complete" -> "COMPLETE"
      [] a = "skip" -> "SKIP"
      [] a = "answer" -> "ANSWER"
      [] a = "advanced" -> "ADVANCED"
      [] a = "high" -> "HIGH"
      [] a = "apology" -> "APOLOGY"
      [] OTHER -> a

Upper(s) == [i \in DOMAIN s |-> UpperAtom(s[i])]

\* str.lower() on one atom
LowerAtom(a) ==
    CASE a = "NOVICE" -> "novice"
      [] a = "INTERMEDIATE" -> "intermediate"
      [] a = "ADVANCED" -> "advanced"
      [] a = "LOW" -> "low"
      [] a = "MEDIUM" -> "medium"
      [] a = "HIGH" -> "high"
      [] a = "SKIP" -> "skip"
      [] a = "Budget" -> "budget"
      [] a = "Cloud" -> "cloud"
      [] a = "Provider" -> "provider"
      [] OTHER -> a

Lower(s) == [i \in DOMAIN s |-> LowerAtom(s[i])]

\* the enumerated tokens that occur inside one (upper-cased) atom
TokensInAtom(a) ==
    CASE a = "SKIPPING" -> {"SKIP"}
      [] a = "INCOMPLETE" -> {"COMPLETE"}
      [] OTHER -> {a}

\* Python: tok in s
Contains(tok, s) == \E i \in DOMAIN s : tok \in TokensInAtom(s[i])

RECURSIVE LStrip(_)
LStrip(s) == IF s # <<>> /\ Head(s) \in WS THEN LStrip(Tail(s)) ELSE s

RECURSIVE RStrip(_)
RStrip(s) ==
    IF s # <<>> /\ s[Len(s)] \in WS THEN RStrip(SubSeq(s, 1, Len(s) - 1)) ELSE s

\* str.strip()
Strip(s) == RStrip(LStrip(s))

\* re.sub(r'\s+', ' ', s)
RECURSIVE CollapseWS(_)
CollapseWS(s) ==
    IF s = <<>> THEN <<>>
    ELSE IF Head(s) \in WS
         THEN <<" ">> \o CollapseWS(LStrip(s))
         ELSE <<Head(s)>> \o CollapseWS(Tail(s))

clean_user_input(user_input) ==
    IF user_input = <<>> THEN <<>> ELSE CollapseWS(Strip(user_input))

(***************************************************************************)
(* OpenAIClient.call_agent                                                 *)
(***************************************************************************)
fallback_message == <<"apology">>

reasoning_models == {"o3", "o3-mini", "o4-mini"}

\* get_operation_config(op)['model']
OperationModel(op) ==
    CASE op \in {"follow_up_detection", "skip_detection", "expertise_extraction"} -> "o3-mini"
      [] op \in {"document_generation", "architecture_recommendation"} -> "o3"
      [] OTHER -> "gpt-4o"

\* An oracle outcome: the API answers with a text, answers with no content,
\* fails inside call_agent (swallowed there), or the client itself raises.
OkOutcome(text) == [kind |-> "ok", content |-> text]
NoneOutcome     == [kind |-> "none", content |-> <<>>]
ApiError        == [kind |-> "api_error", content |-> <<>>]
ClientRaises    == [kind |-> "raise", content |-> <<>>]

\* faulty variant: the except clause of call_agent returns an empty text
call_agent_NoFallback(outcome, model) ==
    LET shape == IF model \in reasoning_models THEN "ReasoningResponse" ELSE "str"
    IN  [raised |-> outcome.kind = "raise", shape |-> shape,
         isNone |-> (outcome.kind = "none" /\ shape = "str"),
         content |-> IF outcome.kind = "ok" THEN outcome.content ELSE <<>>]

\* The value call_agent returns: shape "str" or "ReasoningResponse", the
\* text it carries, or raised = TRUE when the call propagates an exception.
call_agent(outcome, model) ==
    LET shape == IF model \in reasoning_models THEN "ReasoningResponse" ELSE "str"
    IN  CASE outcome.kind = "ok" ->
               [raised |-> FALSE, shape |-> shape, isNone |-> FALSE, content |-> outcome.content]
          [] outcome.kind = "none" ->
               \* response.output_text or ""  /  message.content is None
               [raised |-> FALSE, shape |-> shape,
                isNone |-> (shape = "str"), content |-> <<>>]
          [] outcome.kind = "api_error" ->
               [raised |-> FALSE, shape |-> shape, isNone |-> FALSE, content |-> fallback_message]
          [] OTHER ->
               [raised |-> TRUE, shape |-> shape, isNone |-> FALSE, content |-> <<>>]

(***************************************************************************)
(* Classifiers (utils/helpers.py).  Each returns [raised, value].          *)
(***************************************************************************)
Returned(v) == [raised |-> FALSE, value |-> v]

\* faulty variant: no except clause around the call
needs_follow_up_llm_NoExcept(outcome) ==
    LET result == call_agent(outcome, OperationModel("follow_up_detection"))
    IN  IF result.raised
        THEN [raised |-> TRUE, value |-> FALSE]
        ELSE Returned(Contains("FOLLOW_UP_NEEDED", Upper(result.content)))

needs_follow_up_llm(outcome) ==
    LET result == call_agent(outcome, OperationModel("follow_up_detection"))
    IN  IF result.raised \/ result.isNone
        THEN Returned(FALSE)
        ELSE Returned(Contains("FOLLOW_UP_NEEDED", Upper(result.content)))

is_skip_request_llm(outcome) ==
    LET result == call_agent(outcome, OperationModel("skip_detection"))
    IN  IF result.raised \/ result.isNone
        THEN Returned(FALSE)
        ELSE Returned(Contains("SKIP", Upper(result.content)))

extract_expertise_level_llm(outcome) ==
    LET result == call_agent(outcome, OperationModel("expertise_extraction"))
        result_upper == Strip(Upper(result.content))
    IN  IF result.raised \/ result.isNone
        THEN Returned(None)
        ELSE IF result_upper \in {<<"NOVICE">>, <<"INTERMEDIATE">>, <<"ADVANCED">>}
             THEN Returned(Lower(result_upper)[1])
             ELSE Returned(None)

assess_technical_complexity_llm(outcome) ==
    LET result == call_agent(outcome, "gpt-4o")
        result_upper == Strip(Upper(result.content))
    IN  IF result.raised \/ result.isNone
        THEN Returned("medium")
        ELSE IF result_upper \in {<<"LOW">>, <<"MEDIUM">>, <<"HIGH">>}
             THEN Returned(Lower(result_upper)[1])
             ELSE Returned("medium")

(***************************************************************************)
(* Program constants (core/prompts.py, agents/*.py, main.py)               *)
(***************************************************************************)
PROFILER_TOPICS == <<"expertise_assessment", "project_overview", "project_scale", "timeline">>

BUSINESS_TOPICS == <<"user_base", "traffic_patterns", "availability_requirements",
                     "performance_sla", "budget_constraints",
                     "compliance_requirements", "geographic_distribution">>

APP_TOPICS == <<"application_type", "programming_languages", "frameworks",
                "database_requirements", "storage_needs", "external_integrations",
                "api_requirements", "deployment_model">>

TRIBAL_TOPICS == <<"cloud_provider", "existing_tools", "team_expertise",
                   "security_policies", "operational_preferences", "development_workflow">>

max_follow_ups == 3

Pillars == {"profiler", "business", "app", "tribal"}

\* the steps of main(), in program order
PhaseOrder == <<"profiler", "business", "app", "tribal", "best_practices",
                "document_generation", "review_loop", "save_document">>

Min(a, b) == IF a < b THEN a ELSE b

FullTopics(p) ==
    CASE p = "profiler" -> PROFILER_TOPICS
      [] p = "business" -> BUSINESS_TOPICS
      [] p = "app" -> APP_TOPICS
      [] p = "tribal" -> TRIBAL_TOPICS

\* faulty variant: the pillar iterates over its topics from the end of the list
Topics_Reversed(p) ==
    LET n == Min(MaxTopics, Len(FullTopics(p)))
    IN  [i \in 1..n |-> FullTopics(p)[n + 1 - i]]

\* the topic list the pillar iterates over (its head, within the bound)
Topics(p) == SubSeq(FullTopics(p), 1, Min(MaxTopics, Len(FullTopics(p))))

(***************************************************************************)
(* Python dict helpers                                                     *)
(***************************************************************************)
EmptyDict == [k \in {} |-> None]

DictSet(d, k, v) == [x \in (DOMAIN d) \cup {k} |-> IF x = k THEN v ELSE d[x]]

DictGet(d, k, default) == IF k \in DOMAIN d THEN d[k] ELSE default

\* Optional[str] holding a text
NoText == <<>>
SomeText(t) == <<t>>

(***************************************************************************)
(* StateManager (core/state_manager.py)                                    *)
(***************************************************************************)
InitialUserProfile ==
    [expertise_level |-> None, project_description |-> NoText, gauged_complexity |-> None]

InitialSummaries == [p \in Pillars |-> EmptyDict]

get_chat_history(h, pillar_name) == DictGet(h, pillar_name, <<>>)

\* chat_history after get_chat_history(pillar_name) created the missing key
TouchHistory(h, pillar_name) ==
    IF pillar_name \in DOMAIN h THEN h ELSE DictSet(h, pillar_name, <<>>)

Message(role, content) == [role |-> role, content |-> content]

ConvEntry(pillar_name, role, content) ==
    [agent |-> pillar_name, role |-> role, content |-> content]

\* faulty variant: only the assistant turns are recorded
AddHistory_AssistantOnly(h, pillar_name, role, content) ==
    IF role = "user"
    THEN h
    ELSE DictSet(h, pillar_name,
                 Append(get_chat_history(h, pillar_name), Message(role, content)))

\* faulty variant: an empty content is not recorded
AddHistory_DropsEmpty(h, pillar_name, role, content) ==
    IF content = <<>>
    THEN h
    ELSE DictSet(h, pillar_name,
                 Append(get_chat_history(h, pillar_name), Message(role, content)))

\* faulty variant: the message is inserted at the front of the list
AddHistory_Prepends(h, pillar_name, role, content) ==
    DictSet(h, pillar_name, <<Message(role, content)>> \o get_chat_history(h, pillar_name))

\* add_to_chat_history: the new chat_history
AddHistory(h, pillar_name, role, content) ==
    DictSet(h, pillar_name, Append(get_chat_history(h, pillar_name), Message(role, content)))

\* faulty variant: the entry is put in front of the newest entry
AddConversation_BeforeLast(ac, pillar_name, role, content) ==
    IF ac = <<>>
    THEN <<ConvEntry(pillar_name, role, content)>>
    ELSE SubSeq(ac, 1, Len(ac) - 1)
           \o <<ConvEntry(pillar_name, role, content), ac[Len(ac)]>>

\* add_to_chat_history: the new all_conversations
AddConversation(ac, pillar_name, role, content) ==
    Append(ac, ConvEntry(pillar_name, role, content))

\* faulty variant: storing a summary resets the summaries of the other pillars
set_pillar_summary_ResetsOthers(s, pillar_name, summary) ==
    [x \in (DOMAIN s) \cup {pillar_name} |-> IF x = pillar_name THEN summary ELSE EmptyDict]

\* set_pillar_summary: the new summaries
set_pillar_summary(s, pillar_name, summary) == DictSet(s, pillar_name, summary)

\* faulty variant: the content is stored under the section "document"
update_current_document_WrongSection(d, section, content) == DictSet(d, "document", content)

\* update_current_document: the new current_document
update_current_document(d, section, content) == DictSet(d, section, content)

\* faulty variant: the key leaves out the topic
CountKey_PillarOnly(pillar_name, topic) == <<pillar_name>>

\* f"{pillar_name}.{topic}"
CountKey(pillar_name, topic) == <<pillar_name, ".", topic>>

get_follow_up_count(c, pillar_name, topic) == DictGet(c, CountKey(pillar_name, topic), 0)

\* increment_follow_up_count: the new follow_up_counts
increment_follow_up_count(c, pillar_name, topic) ==
    DictSet(c, CountKey(pillar_name, topic), get_follow_up_count(c, pillar_name, topic) + 1)

(***************************************************************************)
(* Observation: the calls of a run, in call order                          *)
(***************************************************************************)
\* len is the length of the pillar's transcript when the call is made
Ev(e, p, t, n, f, x) ==
    [ev |-> e, pillar |-> p, topic |-> t, n |-> n, flag |-> f, text |-> x,
     len |-> Len(get_chat_history(chat_history, p))]

PhaseEv(e, p) == Ev(e, p, "", 0, FALSE, <<>>)

CurTopic == Topics(phase)[topic_idx]

(***************************************************************************)
(* Environment: oracle outcomes and user inputs                            *)
(***************************************************************************)
QuestionText == <<"question">>

QuestionOutcomes == {OkOutcome(QuestionText), ApiError}

PlainInput == <<" ", "aws", " ", "\t", "budget", " ">>

RawInputs == {PlainInput, <<>>, <<" ", "\t">>, <<" ", "skip">>}

RespAtoms == {"FOLLOW_UP_NEEDED", "COMPLETE", "follow_up_needed", "INCOMPLETE",
              "SKIP", "skip", "ANSWER", "SKIPPING",
              "NOVICE", "advanced", "UNCLEAR", "LOW", "high", "MEDIUM", " ", "ok"}

RECURSIVE TextsUpTo(_, _)
TextsUpTo(atoms, n) ==
    IF n = 0 THEN {<<>>}
    ELSE LET shorter == TextsUpTo(atoms, n - 1)
         IN  shorter \cup {Append(t, a) : t \in shorter, a \in atoms}

\* what the oracle can do when a classifier calls it
ClassifierOutcomes ==
    {OkOutcome(t) : t \in TextsUpTo(RespAtoms, MaxRespLen)}
        \cup {NoneOutcome, ApiError, ClientRaises}

\* outcomes of the needs-follow-up call inside the topic loop
FollowUpOutcomes ==
    {OkOutcome(<<"FOLLOW_UP_NEEDED">>), OkOutcome(<<"COMPLETE">>),
     OkOutcome(<<"follow_up_needed", " ">>), OkOutcome(<<"ok">>), ApiError}

ExpertiseLevels == {"novice", "intermediate", "advanced"}
Complexities == {"low", "medium", "high"}

\* is_skip_response(user_answer): the verdict expected of the skip classifier
ExpectedSkip(answer) == answer = <<"skip">>

Cost(b) == IF b THEN 1 ELSE 0

\* The environment departs from the plain run either inside one step of
\* main() (the other steps run plainly) or anywhere in the run.
Scopes == Pillars \cup {"best_practices", "document_generation", "review_loop", "run"}

Limit == IF scope = "run" THEN MaxRunEvents ELSE MaxEvents

\* the environment may make a choice of cost c now
CanSpend(c) == c = 0 \/ (scope \in {phase, "run"} /\ events + c <= Limit)

(***************************************************************************)
(* ProfilerAgent._process_user_answer: the new user profile                *)
(***************************************************************************)
\* faulty variant: a profile without a level counts as a novice
GaugedComplexity_UnsetIsNovice(complexity, stated_level) ==
    IF complexity = "high" /\ stated_level \in {"novice", "intermediate", None}
    THEN "higher than stated"
    ELSE IF complexity = "low" /\ stated_level = "advanced"
         THEN "lower than stated"
         ELSE "matches stated"

GaugedComplexity(complexity, stated_level) ==
    IF complexity = "high" /\ stated_level \in {"novice", "intermediate"}
    THEN "higher than stated"
    ELSE IF complexity = "low" /\ stated_level = "advanced"
         THEN "lower than stated"
         ELSE "matches stated"

\* faulty variant: a project description already stored is kept
process_user_answer_KeepsDescription(profile, topic, answer, stated, complexity) ==
    IF topic = "expertise_assessment"
    THEN IF stated # None THEN [profile EXCEPT !.expertise_level = stated] ELSE profile
    ELSE IF topic = "project_overview"
         THEN [profile EXCEPT
                 !.project_description = IF @ = NoText THEN SomeText(answer) ELSE @,
                 !.gauged_complexity = GaugedComplexity(complexity, profile.expertise_level)]
         ELSE profile

\* faulty variant: the answer to expertise_assessment is also stored as the
\* project description
process_user_answer_StoresAnswer(profile, topic, answer, stated, complexity) ==
    IF topic = "expertise_assessment"
    THEN [profile EXCEPT !.expertise_level = IF stated # None THEN stated ELSE @,
                         !.project_description = SomeText(answer)]
    ELSE IF topic = "project_overview"
         THEN [profile EXCEPT
                 !.project_description = SomeText(answer),
                 !.gauged_complexity = GaugedComplexity(complexity, profile.expertise_level)]
         ELSE profile

process_user_answer(profile, topic, answer, stated, complexity) ==
    IF topic = "expertise_assessment"
    THEN IF stated # None THEN [profile EXCEPT !.expertise_level = stated] ELSE profile
    ELSE IF topic = "project_overview"
         THEN [profile EXCEPT
                 !.project_description = SomeText(answer),
                 !.gauged_complexity = GaugedComplexity(complexity, profile.expertise_level)]
         ELSE profile

(***************************************************************************)
(* _extract_summary of the four interview agents                           *)
(***************************************************************************)
\* the search terms that occur inside one (lower-cased) atom
TermsInAtom(a) ==
    CASE a = "aws" -> {"aws"}
      [] a = "budget" -> {"budget"}
      [] a = "skip" -> {"k"}
      [] OTHER -> {}

TermsIn(content) == UNION {TermsInAtom(Lower(content)[i]) : i \in DOMAIN content}

\* summary key -> the terms whose presence fills it
SummaryTerms(p) ==
    CASE p = "business" ->
           [user_scale |-> {"thousand", "million", "hundred", "k", "m"},
            uptime_requirement |-> {"99", "uptime", "availability", "sla"},
            budget |-> {"budget", "cost", "dollar", "$", "expensive", "cheap"},
            compliance |-> {"compliance", "regulation", "pci", "hipaa", "gdpr", "sox"},
            geographic |-> {"region", "country", "global", "international", "local"}]
      [] p = "app" ->
           [application_type |-> {"web", "mobile", "api", "desktop", "service"},
            programming_languages |-> {"python", "javascript", "java", "php", "ruby",
                                       "go", "rust", "c#", "typescript"},
            frameworks |-> {"react", "angular", "vue", "django", "flask", "express",
                            "spring", "rails"},
            database_requirements |-> {"database", "sql", "postgresql", "mysql",
                                       "mongodb", "redis", "elasticsearch"},
            storage_needs |-> {"storage", "files", "images", "documents", "uploads",
                               "s3", "blob"},
            external_integrations |-> {"api", "integration", "third-party", "service",
                                       "payment", "email"}]
      [] p = "tribal" ->
           [cloud_provider |-> {"aws", "azure", "google", "gcp", "amazon", "microsoft"},
            existing_tools |-> {"github", "gitlab", "jenkins", "docker", "kubernetes",
                                "terraform", "ansible"},
            team_expertise |-> {"team", "developer", "engineer", "experience", "skill",
                                "knowledge"},
            security_policies |-> {"security", "policy", "compliance", "audit",
                                   "governance", "access"},
            operational_preferences |-> {"manage", "maintenance", "monitoring", "support",
                                         "operations", "devops"}]
      [] OTHER ->
           [domain |-> {"fintech", "healthcare", "e-commerce", "gaming", "education"},
            timeline |-> {"month", "week", "year", "soon", "asap"}]

\* the first user message of the history that contains one of the terms
FirstHit(history, terms) ==
    LET hits == {i \in DOMAIN history :
                    /\ history[i].role = "user"
                    /\ TermsIn(history[i].content) \cap terms # {}}
    IN  IF hits = {} THEN 0 ELSE CHOOSE i \in hits : \A j \in hits : i <= j

KeywordSummary(p, history) ==
    LET T == SummaryTerms(p)
        keys == {k \in DOMAIN T : FirstHit(history, T[k]) # 0}
    IN  [k \in keys |-> history[FirstHit(history, T[k])].content]

Domains == <<"fintech", "healthcare", "e-commerce", "gaming", "education">>

\* the domain / timeline entries the profiler derives from the user turns
ProfilerExtras(history) ==
    LET T == SummaryTerms("profiler")
        d == FirstHit(history, T.domain)
        t == FirstHit(history, T.timeline)
        dterms == IF d = 0 THEN {} ELSE TermsIn(history[d].content)
        tterms == IF t = 0 THEN {} ELSE TermsIn(history[t].content)
        first == CHOOSE i \in DOMAIN Domains :
                    /\ Domains[i] \in dterms
                    /\ \A j \in 1..(i - 1) : Domains[j] \notin dterms
        label == IF "month" \in tterms THEN "months"
                 ELSE IF "week" \in tterms THEN "weeks"
                 ELSE IF "year" \in tterms THEN "year+" ELSE "soon"
        withDomain == IF d = 0 THEN EmptyDict ELSE DictSet(EmptyDict, "domain", Domains[first])
    IN  IF t = 0 THEN withDomain ELSE DictSet(withDomain, "timeline", label)

extract_summary(p, history, profile) ==
    IF p = "profiler"
    THEN [expertise_stated |-> profile.expertise_level,
          expertise_observed |-> profile.gauged_complexity,
          project_description |-> profile.project_description,
          extras |-> ProfilerExtras(history)]
    ELSE KeywordSummary(p, history)

BestPracticesSummary ==
    [applied_practices |-> "Industry best practices applied for missing requirements",
     requirements_reviewed |-> 3,
     gaps_filled |-> "Security, monitoring, backup, and deployment defaults added"]

(***************************************************************************)
(* main(): the run                                                         *)
(***************************************************************************)
\* faulty variant: main() runs the tribal pillar before the app pillar
NextPhase_Swapped(ph) ==
    LET order == <<"profiler", "business", "tribal", "app", "best_practices",
                   "document_generation", "review_loop", "save_document">>
        i == CHOOSE k \in DOMAIN order : order[k] = ph
    IN  order[i + 1]

NextPhase(ph) ==
    LET i == CHOOSE k \in DOMAIN PhaseOrder : PhaseOrder[k] = ph
    IN  PhaseOrder[i + 1]

\* the first suspension point of a phase
EntryPc(ph) ==
    CASE ph \in Pillars -> "process_topic"
      [] ph = "best_practices" -> "best_practices"
      [] ph = "document_generation" -> "architecture"
      [] ph = "review_loop" -> "menu"
      [] OTHER -> "save"

\* points where the run waits for the oracle or for the terminal
WaitPoints == {"ask", "input", "follow_up", "best_practices", "architecture",
               "main_document", "menu", "feedback", "section", "apply"}

(***************************************************************************)
(* StateManager as an object, and the prompt an agent renders from it      *)
(***************************************************************************)
\* a dict whose iteration order is observed by json.dumps: the keys in
\* insertion order and the mapping
OrderedDict(keys, val) == [keys |-> keys, val |-> val]

EmptyOrderedDict == OrderedDict(<<>>, EmptyDict)

\* the key order after d[k] = v: a new key goes to the end
KeysAfterSet(d, k) == IF k \in DOMAIN d.val THEN d.keys ELSE Append(d.keys, k)

\* json.dumps(d, indent=2): the members, in the dict's iteration order
json_dumps(d) == [i \in DOMAIN d.keys |-> <<d.keys[i], d.val[d.keys[i]]>>]

\* initialize_state: the new self.state
InitialInterviewState ==
    [set |-> TRUE,
     chat_history |-> EmptyDict,
     state |-> [user_profile |-> InitialUserProfile,
                current_document |-> EmptyOrderedDict,
                all_conversations |-> <<>>,
                follow_up_counts |-> EmptyDict],
     summaries |-> OrderedDict(<<"profiler", "business", "app", "tribal">>,
                               InitialSummaries)]

\* outcome of a StateManager method: the state it leaves, and whether it raised
Done(m) == [raised |-> FALSE, state |-> m]
Raising(m) == [raised |-> TRUE, state |-> m]

\* faulty variant: user messages are not added to all_conversations
sm_add_to_chat_history_AssistantMirror(m, pillar_name, role, content) ==
    IF ~m.set
    THEN Raising(m)
    ELSE LET m1 == [m EXCEPT !.chat_history = AddHistory(@, pillar_name, role, content)]
         IN  IF "all_conversations" \notin DOMAIN m.state
             THEN Raising(m1)
             ELSE IF role = "user"
             THEN Done(m1)
             ELSE Done([m1 EXCEPT !.state.all_conversations =
                                     AddConversation(@, pillar_name, role, content)])

sm_add_to_chat_history(m, pillar_name, role, content) ==
    IF ~m.set
    THEN Raising(m)
    ELSE LET m1 == [m EXCEPT !.chat_history = AddHistory(@, pillar_name, role, content)]
         IN  IF "all_conversations" \notin DOMAIN m.state
             THEN Raising(m1)
             ELSE Done([m1 EXCEPT !.state.all_conversations =
                                     AddConversation(@, pillar_name, role, content)])

sm_update_user_profile(m, updates) ==
    IF ~m.set \/ "user_profile" \notin DOMAIN m.state
    THEN Raising(m)
    ELSE Done([m EXCEPT !.state.user_profile =
                 [k \in (DOMAIN @) \cup (DOMAIN updates) |->
                     IF k \in DOMAIN updates THEN updates[k] ELSE @[k]]])

sm_set_pillar_summary(m, pillar_name, summary) ==
    IF ~m.set
    THEN Raising(m)
    ELSE Done([m EXCEPT !.summaries =
                 OrderedDict(KeysAfterSet(@, pillar_name),
                             set_pillar_summary(@.val, pillar_name, summary))])

sm_update_current_document(m, section, content) ==
    IF ~m.set \/ "current_document" \notin DOMAIN m.state
    THEN Raising(m)
    ELSE Done([m EXCEPT !.state.current_document =
                 OrderedDict(KeysAfterSet(@, section),
                             update_current_document(@.val, section, content))])

sm_increment_follow_up_count(m, pillar_name, topic) ==
    IF ~m.set \/ "follow_up_counts" \notin DOMAIN m.state
    THEN Raising(m)
    ELSE Done([m EXCEPT !.state.follow_up_counts =
                 increment_follow_up_count(@, pillar_name, topic)])

export_state(m) ==
    IF ~m.set
    THEN EmptyDict
    ELSE [chat_history |-> m.chat_history, state |-> m.state, summaries |-> m.summaries]

\* faulty variant: the summaries are looked up under the key "summary"
import_state_WrongKey(state_data) ==
    [set |-> TRUE,
     chat_history |-> DictGet(state_data, "chat_history", EmptyDict),
     state |-> DictGet(state_data, "state", EmptyDict),
     summaries |-> DictGet(state_data, "summary", EmptyOrderedDict)]

\* import_state: the new self.state
import_state(state_data) ==
    [set |-> TRUE,
     chat_history |-> DictGet(state_data, "chat_history", EmptyDict),
     state |-> DictGet(state_data, "state", EmptyDict),
     summaries |-> DictGet(state_data, "summaries", EmptyOrderedDict)]

\* build_system_prompt_context: the context dict, or KeyError when self.state.state
\* has no "user_profile" / "current_document"
build_system_prompt_context(m) ==
    IF ~m.set
    THEN Returned(EmptyOrderedDict)
    ELSE IF "user_profile" \notin DOMAIN m.state \/ "current_document" \notin DOMAIN m.state
         THEN [raised |-> TRUE, value |-> EmptyOrderedDict]
         ELSE LET profile == m.state.user_profile
              IN  Returned(OrderedDict(
                    <<"expertise_level", "gauged_complexity", "project_description",
                      "all_summaries", "current_document">>,
                    [expertise_level |-> DictGet(profile, "expertise_level", "unknown"),
                     gauged_complexity |-> DictGet(profile, "gauged_complexity", "unknown"),
                     project_description |->
                         DictGet(profile, "project_description", "No description yet"),
                     all_summaries |-> json_dumps(m.summaries),
                     current_document |-> json_dumps(m.state.current_document)]))

\* faulty variant: building the context creates the pillar's transcript, as
\* get_chat_history does
StateAfterContext_CreatesHistory(m, pillar_name) ==
    IF m.set THEN [m EXCEPT !.chat_history = TouchHistory(@, pillar_name)] ELSE m

\* self.state after build_system_prompt_context(pillar_name): nothing is assigned
StateAfterContext(m, pillar_name) == m

\* a piece of prompt text: literal text, or a replacement field {name}
Lit(x) == [hole |-> FALSE, v |-> x]
Hole(name) == [hole |-> TRUE, v |-> name]

\* the block every agent prompt ends with
CONTEXT_BLOCK ==
    <<Lit("CURRENT USER CONTEXT:"),
      Lit("- Stated expertise: "), Hole("expertise_level"),
      Lit("- Observed complexity: "), Hole("gauged_complexity"),
      Lit("- Project description: "), Hole("project_description"),
      Lit("COMPLETED PILLARS:"), Hole("all_summaries"),
      Lit("CURRENT DOCUMENT:"), Hole("current_document")>>

BEST_PRACTICES_PROMPT ==
    <<Lit("best practices expert"), Hole("infrastructure_checklist")>>
        \o CONTEXT_BLOCK \o <<Lit("Fill in missing pieces")>>

INFRASTRUCTURE_CHECKLIST ==
    <<"compute_resources", "auto_scaling", "load_balancing", "network_architecture",
      "security_groups", "vpn_requirements", "cdn_needs", "database_setup",
      "object_storage", "backup_strategy", "authentication", "authorization",
      "encryption", "secrets_management", "logging_strategy", "metrics_collection",
      "alerting_rules", "backup_frequency", "recovery_objectives",
      "multi_region_strategy", "deployment_pipeline", "testing_strategy",
      "rollback_procedures">>

\* the template of the agent: BEST_PRACTICES_PROMPT, or the pillar's
\* RECOMMENDATION_QUESTION_FRAMEWORK + its own instructions and context block
PromptTemplate(agent) ==
    IF agent = "best_practices"
    THEN BEST_PRACTICES_PROMPT
    ELSE <<Lit("RECOMMENDATION_QUESTION_FRAMEWORK"), Lit(agent)>> \o CONTEXT_BLOCK

\* the replacement fields of a template that the context has no value for
MissingFields(template, context) ==
    {template[i].v : i \in {j \in DOMAIN template : template[j].hole}} \ DOMAIN context.val

\* template.format(**context): KeyError when a field has no value
Format(template, context) ==
    IF MissingFields(template, context) # {}
    THEN [raised |-> TRUE, value |-> <<>>]
    ELSE Returned([i \in DOMAIN template |->
                     IF template[i].hole THEN Lit(context.val[template[i].v])
                     ELSE template[i]])

\* the context the agent formats its template with
AgentContext(agent, context) ==
    IF agent = "best_practices"
    THEN OrderedDict(KeysAfterSet(context, "infrastructure_checklist"),
                     DictSet(context.val, "infrastructure_checklist",
                             INFRASTRUCTURE_CHECKLIST))
    ELSE context

\* faulty variant: no except KeyError around format
_build_system_prompt_NoFallback(agent, m) ==
    LET c == build_system_prompt_context(m)
    IN  IF c.raised
        THEN [raised |-> TRUE, value |-> <<>>]
        ELSE Format(PromptTemplate(agent), AgentContext(agent, c.value))

\* _build_system_prompt of the agent, on the StateManager state m
_build_system_prompt(agent, m) ==
    LET c == build_system_prompt_context(m)
    IN  IF c.raised
        THEN [raised |-> TRUE, value |-> <<>>]
        ELSE LET context == AgentContext(agent, c.value)
                 f == Format(PromptTemplate(agent), context)
             IN  IF f.raised
                 THEN Returned(PromptTemplate(agent)
                                 \o <<Lit("CONTEXT:"), Lit(json_dumps(context))>>)
                 ELSE f

\* StateManager.__init__: self.state is None (set is FALSE); nothing exported
ApiIdle ==
    /\ mgr = [set |-> FALSE, chat_history |-> EmptyDict, state |-> EmptyDict,
              summaries |-> EmptyOrderedDict]
    /\ exported = [alias |-> FALSE, data |-> EmptyDict]
    /\ api_result = [op |-> "none", agent |-> None, raised |-> FALSE, value |-> <<>>]
    /\ api_calls = 0

(***************************************************************************)
(* OpenAIClient: the stored reasoning summaries                            *)
(***************************************************************************)
\* s[start:] of Python for a list s and an integer start
SliceFrom(s, start) ==
    LET from == IF start < 0
                THEN (IF Len(s) + start < 0 THEN 0 ELSE Len(s) + start)
                ELSE (IF start > Len(s) THEN Len(s) ELSE start)
    IN  SubSeq(s, from + 1, Len(s))

\* the entry built by store_reasoning_summary; the response content is given as
\* its first 500 characters (head) and the rest, time.time() as a clock tick
StorageEntry(reasoning_response, context, now) ==
    [timestamp |-> now,
     reasoning_summary |-> reasoning_response.reasoning_summary,
     model |-> reasoning_response.model_used,
     content_preview |-> IF reasoning_response.content.tail # <<>>
                         THEN reasoning_response.content.head \o <<"...">>
                         ELSE reasoning_response.content.head,
     context |-> context]

\* store_reasoning_summary: the new reasoning_storage
store_reasoning_summary(storage, entry) ==
    IF Len(storage) + 1 > 10 THEN SliceFrom(Append(storage, entry), -10)
                             ELSE Append(storage, entry)

\* self.reasoning_storage[-limit:] if self.reasoning_storage else []
get_recent_reasoning_context(storage, limit) ==
    IF storage # <<>> THEN SliceFrom(storage, 0 - limit) ELSE <<>>

ClientIdle ==
    /\ reasoning_storage = <<>>
    /\ stored = <<>>
    /\ recent = [limit |-> -1, value |-> <<>>]

Init ==
    /\ initialized = FALSE
    /\ chat_history = EmptyDict
    /\ all_conversations = <<>>
    /\ follow_up_counts = EmptyDict
    /\ user_profile = InitialUserProfile
    /\ summaries = EmptyDict
    /\ current_document = EmptyDict
    /\ pc = "initialize_state"
    /\ phase = "startup"
    /\ topic_idx = 0
    /\ follow_up_count = 0
    /\ topic_complete = FALSE
    /\ agent_response = <<>>
    /\ user_answer = <<>>
    /\ document = <<>>
    /\ feedback = <<>>
    /\ files = <<>>
    /\ exit_status = Running
    /\ trace = <<>>
    /\ events = 0
    /\ scope \in Scopes
    /\ cls_pc = "idle"
    /\ cls_name = None
    /\ cls_outcome = ApiError
    /\ cls_result = Returned(None)
    /\ ApiIdle
    /\ ClientIdle

\* state_manager.initialize_state(), then profiler.run_pillar is entered
InitializeState ==
    /\ pc = "initialize_state"
    /\ initialized' = TRUE
    /\ user_profile' = InitialUserProfile
    /\ current_document' = EmptyDict
    /\ all_conversations' = <<>>
    /\ follow_up_counts' = EmptyDict
    /\ summaries' = InitialSummaries
    /\ phase' = PhaseOrder[1]
    /\ topic_idx' = 1
    /\ pc' = EntryPc(PhaseOrder[1])
    /\ trace' = Append(trace, PhaseEv("phase_start", PhaseOrder[1]))
    /\ UNCHANGED <<chat_history, follow_up_count, topic_complete, agent_response,
                   user_answer, document, feedback, files, exit_status, events, clsVars, apiVars, clientVars, scope>>

\* _process_topic is entered for the current topic of the for-loop
ProcessTopic ==
    /\ pc = "process_topic"
    /\ follow_up_count' = 0
    /\ topic_complete' = FALSE
    /\ pc' = "loop"
    /\ trace' = Append(trace, Ev("topic_start", phase, CurTopic, 0, FALSE, <<>>))
    /\ UNCHANGED <<smVars, phase, topic_idx, agent_response, user_answer, document,
                   feedback, files, exit_status, events, clsVars, apiVars, clientVars, scope>>

\* faulty variant: the loop runs while the counter is below four
WhileTest_LimitFour(complete, count) == ~complete /\ count < 4

\* faulty variant: the bound of the while test is off by one
WhileTest_OffByOne(complete, count) == ~complete /\ count <= max_follow_ups

\* faulty variant: the while test does not look at the counter
WhileTest_IgnoresCount(complete, count) == ~complete

\* while not topic_complete and follow_up_count < self.max_follow_ups
WhileTest(complete, count) == ~complete /\ count < max_follow_ups

\* the while test holds: the prompt is built and call_agent is awaited
LoopEnter ==
    /\ pc = "loop"
    /\ WhileTest(topic_complete, follow_up_count)
    /\ chat_history' = TouchHistory(chat_history, phase)
    /\ pc' = "ask"
    /\ UNCHANGED <<initialized, all_conversations, follow_up_counts, user_profile,
                   summaries, current_document, phase, topic_idx, follow_up_count,
                   topic_complete, agent_response, user_answer, document, feedback,
                   files, exit_status, obsVars, clsVars, apiVars, clientVars, scope>>

\* the while test fails: _process_topic returns and the for-loop advances
LoopExit ==
    /\ pc = "loop"
    /\ ~WhileTest(topic_complete, follow_up_count)
    /\ trace' = Append(trace, Ev("topic_end", phase, CurTopic, follow_up_count,
                                 topic_complete, <<>>))
    /\ IF topic_idx < Len(Topics(phase))
       THEN /\ topic_idx' = topic_idx + 1
            /\ pc' = "process_topic"
       ELSE /\ topic_idx' = topic_idx
            /\ pc' = "summary"
    /\ UNCHANGED <<smVars, phase, follow_up_count, topic_complete, agent_response,
                   user_answer, document, feedback, files, exit_status, events, clsVars, apiVars, clientVars, scope>>

\* call_agent returns the question (or the fallback text)
AskQuestion ==
    /\ pc = "ask"
    /\ \E outcome \in QuestionOutcomes :
         /\ CanSpend(Cost(outcome.kind # "ok"))
         /\ events' = events + Cost(outcome.kind # "ok")
         /\ agent_response' = call_agent(outcome, "gpt-4o").content
         /\ trace' = Append(trace, Ev("ask", phase, CurTopic, follow_up_count,
                                      outcome.kind = "ok",
                                      call_agent(outcome, "gpt-4o").content))
    /\ pc' = "input"
    /\ UNCHANGED <<smVars, phase, topic_idx, follow_up_count, topic_complete,
                   user_answer, document, feedback, files, exit_status, clsVars, apiVars, clientVars, scope>>

\* faulty variant: the skip branch lacks its continue and falls through
SkipBranch_FallsThrough(skip, complete) ==
    [complete |-> IF skip THEN TRUE ELSE complete, pc |-> "follow_up"]

\* if is_skip_response(user_answer): topic_complete = True; continue
SkipBranch(skip, complete) ==
    [complete |-> IF skip THEN TRUE ELSE complete,
     pc |-> IF skip THEN "loop" ELSE "follow_up"]

\* input() returns: both turns are recorded, the skip check runs and, in the
\* profiler, the answer is processed; then needs_follow_up_llm is awaited
ReadAnswer ==
    /\ pc = "input"
    /\ \E raw \in RawInputs, skip \in BOOLEAN,
          stated \in ExpertiseLevels \cup {None}, complexity \in Complexities :
         LET answer == clean_user_input(Strip(raw))
             asksLevel == ~skip /\ phase = "profiler" /\ CurTopic = "expertise_assessment"
             asksCplx == ~skip /\ phase = "profiler" /\ CurTopic = "project_overview"
             cost == Cost(raw # PlainInput) + Cost(skip # ExpectedSkip(answer))
                       + Cost(stated # None) + Cost(complexity # "medium")
         IN  /\ asksLevel \/ stated = None
             /\ asksCplx \/ complexity = "medium"
             /\ CanSpend(cost)
             /\ events' = events + cost
             /\ user_answer' = answer
             /\ chat_history' = AddHistory(AddHistory(chat_history, phase, "assistant",
                                                      agent_response),
                                           phase, "user", answer)
             /\ all_conversations' =
                    AddConversation(AddConversation(all_conversations, phase,
                                                    "assistant", agent_response),
                                    phase, "user", answer)
             /\ trace' = trace \o <<Ev("answer", phase, CurTopic, follow_up_count,
                                       FALSE, answer),
                                    Ev("skip_check", phase, CurTopic, follow_up_count,
                                       skip, answer)>>
             /\ topic_complete' = SkipBranch(skip, topic_complete).complete
             /\ pc' = SkipBranch(skip, topic_complete).pc
             /\ user_profile' =
                  IF ~skip /\ phase = "profiler"
                  THEN process_user_answer(user_profile, CurTopic, answer,
                                           stated, complexity)
                  ELSE user_profile
    /\ UNCHANGED <<initialized, follow_up_counts, summaries, current_document, phase,
                   topic_idx, follow_up_count, agent_response, document, feedback,
                   files, exit_status, clsVars, apiVars, clientVars, scope>>

\* needs_follow_up_llm returns
FollowUpCheck ==
    /\ pc = "follow_up"
    /\ \E outcome \in FollowUpOutcomes :
         LET r == needs_follow_up_llm(outcome)
         IN  IF r.raised
             THEN /\ pc' = "aborted"
                  /\ exit_status' = 1
                  /\ UNCHANGED <<follow_up_count, follow_up_counts, topic_complete,
                                 trace, events>>
             ELSE /\ CanSpend(Cost(r.value /\ follow_up_count = 0))
                  /\ events' = events + Cost(r.value /\ follow_up_count = 0)
                  /\ exit_status' = exit_status
                  /\ trace' = Append(trace, Ev("follow_up_check", phase, CurTopic,
                                               follow_up_count, r.value, user_answer))
                  /\ pc' = "loop"
                  /\ IF r.value
                     THEN /\ follow_up_count' = follow_up_count + 1
                          /\ follow_up_counts' =
                               increment_follow_up_count(follow_up_counts, phase, CurTopic)
                          /\ topic_complete' = topic_complete
                     ELSE /\ follow_up_count' = follow_up_count
                          /\ follow_up_counts' = follow_up_counts
                          /\ topic_complete' = TRUE
    /\ UNCHANGED <<initialized, chat_history, all_conversations, user_profile,
                   summaries, current_document, phase, topic_idx, agent_response,
                   user_answer, document, feedback, files, clsVars, apiVars, clientVars, scope>>

\* the topics are done: the summary is extracted and stored, run_pillar
\* returns and main() enters the next step
StoreSummary ==
    /\ pc = "summary"
    /\ summaries' = set_pillar_summary(summaries, phase,
                            extract_summary(phase, get_chat_history(chat_history, phase),
                                            user_profile))
    /\ chat_history' = TouchHistory(chat_history, phase)
    /\ phase' = NextPhase(phase)
    /\ topic_idx' = 1
    /\ pc' = EntryPc(NextPhase(phase))
    /\ trace' = trace \o <<PhaseEv("summary", phase), PhaseEv("phase_end", phase),
                           PhaseEv("phase_start", NextPhase(phase))>>
    /\ UNCHANGED <<initialized, all_conversations, follow_up_counts, user_profile,
                   current_document, follow_up_count, topic_complete, agent_response,
                   user_answer, document, feedback, files, exit_status, events, clsVars, apiVars, clientVars, scope>>

\* text returned by BaseAgent.get_response
\* faulty variant: a failed call gives the empty text
get_response_EmptyOnFailure(outcome, model) ==
    IF outcome.kind = "ok" THEN call_agent(outcome, model).content ELSE <<>>

get_response(outcome, model) == call_agent(outcome, model).content

BestPracticesText == <<"recommendations">>
PlanText == <<"plan">>
RevisedText == <<"plan", "dr">>

GenerationOutcomes(text) == {OkOutcome(text), ApiError}

ApplyOutcomes == {OkOutcome(RevisedText), ApiError}

Choices == {"1", "2", "3", "x"}

DefaultFeedback == <<"add", " ", "dr">>

Feedbacks == {DefaultFeedback, <<>>, <<" ", "\t">>}

FileEntry(name, content) == [name |-> name, content |-> content]

\* best_practices.run_pillar: the oracle call returns, the section and the
\* summary are stored
BestPractices ==
    /\ pc = "best_practices"
    /\ \E outcome \in GenerationOutcomes(BestPracticesText) :
         /\ CanSpend(Cost(outcome.kind # "ok"))
         /\ events' = events + Cost(outcome.kind # "ok")
         /\ current_document' = update_current_document(current_document, "best_practices",
                                        call_agent(outcome, "gpt-4o").content)
    /\ summaries' = set_pillar_summary(summaries, phase, BestPracticesSummary)
    /\ phase' = NextPhase(phase)
    /\ pc' = EntryPc(NextPhase(phase))
    /\ trace' = trace \o <<PhaseEv("summary", phase), PhaseEv("phase_end", phase),
                           PhaseEv("phase_start", NextPhase(phase))>>
    /\ UNCHANGED <<initialized, chat_history, all_conversations, follow_up_counts,
                   user_profile, topic_idx, follow_up_count, topic_complete,
                   agent_response, user_answer, document, feedback, files,
                   exit_status, clsVars, apiVars, clientVars, scope>>

\* generate_document, step 1: the architecture recommendation returns (its
\* text only feeds the prompt of step 2)
GenerateArchitecture ==
    /\ pc = "architecture"
    /\ \E outcome \in GenerationOutcomes(<<"architecture">>) :
         trace' = Append(trace, Ev("architecture", phase, "", 0, FALSE, <<>>))
    /\ pc' = "main_document"
    /\ UNCHANGED <<smVars, phase, topic_idx, follow_up_count, topic_complete,
                   agent_response, user_answer, document, feedback, files,
                   exit_status, events, clsVars, apiVars, clientVars, scope>>

\* generate_document, step 2: the document returns, the generator saves it
\* and main() enters review_loop
GenerateMainDocument ==
    /\ pc = "main_document"
    /\ \E outcome \in GenerationOutcomes(PlanText) :
         LET response == get_response(outcome, OperationModel("document_generation"))
         IN  /\ CanSpend(Cost(outcome.kind # "ok"))
             /\ events' = events + Cost(outcome.kind # "ok")
             /\ files' = Append(files, FileEntry("infrastructure_plan_o3", response))
             /\ document' = response
    /\ phase' = NextPhase(phase)
    /\ pc' = EntryPc(NextPhase(phase))
    /\ trace' = trace \o <<PhaseEv("phase_end", phase),
                           PhaseEv("phase_start", NextPhase(phase))>>
    /\ UNCHANGED <<smVars, topic_idx, follow_up_count, topic_complete, agent_response,
                   user_answer, feedback, exit_status, clsVars, apiVars, clientVars, scope>>

\* faulty variant: choice 3 asks for feedback as choice 2 does
ChoiceBranch_ThreeAsksFeedback(choice) ==
    CASE choice = "1" -> "return"
      [] choice \in {"2", "3"} -> "feedback"
      [] OTHER -> "menu"

\* faulty variant: an invalid choice leaves the loop
ChoiceBranch_InvalidReturns(choice) ==
    CASE choice = "2" -> "feedback"
      [] choice = "3" -> "section"
      [] OTHER -> "return"

\* the branch of review_loop taken for a menu choice
ChoiceBranch(choice) ==
    CASE choice = "1" -> "return"
      [] choice = "2" -> "feedback"
      [] choice = "3" -> "section"
      [] OTHER -> "menu"

\* review_loop: the menu choice is read
ReviewChoice ==
    /\ pc = "menu"
    /\ \E choice \in Choices :
         /\ CanSpend(Cost(choice # "1"))
         /\ events' = events + Cost(choice # "1")
         /\ IF ChoiceBranch(choice) = "return"
            THEN /\ phase' = NextPhase(phase)
                 /\ pc' = EntryPc(NextPhase(phase))
                 /\ trace' = trace \o <<Ev("choice", phase, choice, 0, FALSE, document),
                                        PhaseEv("phase_end", phase),
                                        PhaseEv("phase_start", NextPhase(phase))>>
            ELSE /\ phase' = phase
                 /\ pc' = ChoiceBranch(choice)
                 /\ trace' = Append(trace, Ev("choice", phase, choice, 0, FALSE, document))
    /\ UNCHANGED <<smVars, topic_idx, follow_up_count, topic_complete, agent_response,
                   user_answer, document, feedback, files, exit_status, clsVars, apiVars, clientVars, scope>>

\* review_loop, choice 2: the feedback line is read
ReadFeedback ==
    /\ pc = "feedback"
    /\ \E fb \in Feedbacks :
         /\ CanSpend(Cost(fb # DefaultFeedback))
         /\ events' = events + Cost(fb # DefaultFeedback)
         /\ feedback' = fb
         /\ pc' = IF Strip(fb) # <<>> THEN "apply" ELSE "menu"
         /\ trace' = Append(trace, Ev("feedback", phase, "", 0, Strip(fb) # <<>>, fb))
    /\ UNCHANGED <<smVars, phase, topic_idx, follow_up_count, topic_complete,
                   agent_response, user_answer, document, files, exit_status, clsVars, apiVars, clientVars, scope>>

\* review_loop, choice 2: apply_feedback returns the updated document
ApplyFeedback ==
    /\ pc = "apply"
    /\ \E outcome \in ApplyOutcomes :
         /\ CanSpend(Cost(outcome # OkOutcome(RevisedText)))
         /\ events' = events + Cost(outcome # OkOutcome(RevisedText))
         /\ document' = get_response(outcome, "o3")
         /\ trace' = Append(trace, Ev("apply_feedback", phase, "", 0, outcome.kind = "ok",
                                      get_response(outcome, "o3")))
    /\ pc' = "menu"
    /\ UNCHANGED <<smVars, phase, topic_idx, follow_up_count, topic_complete,
                   agent_response, user_answer, feedback, files, exit_status, clsVars, apiVars, clientVars, scope>>

\* review_loop, choice 3: the section name is read
ViewSection ==
    /\ pc = "section"
    /\ pc' = "menu"
    /\ trace' = Append(trace, Ev("section", phase, "", 0, FALSE, <<>>))
    /\ UNCHANGED <<smVars, phase, topic_idx, follow_up_count, topic_complete,
                   agent_response, user_answer, document, feedback, files,
                   exit_status, events, clsVars, apiVars, clientVars, scope>>

\* save_document(final_document), then main() returns
SaveDocument ==
    /\ pc = "save"
    /\ files' = Append(files, FileEntry("infrastructure_plan", document))
    /\ pc' = "done"
    /\ exit_status' = 0
    /\ trace' = Append(trace, PhaseEv("phase_end", phase))
    /\ UNCHANGED <<smVars, phase, topic_idx, follow_up_count, topic_complete,
                   agent_response, user_answer, document, feedback, events, clsVars, apiVars, clientVars, scope>>

\* KeyboardInterrupt while waiting: main() prints the restart message and exits
Interrupt ==
    /\ pc \in WaitPoints
    /\ CanSpend(1)
    /\ events' = events + 1
    /\ pc' = "aborted"
    /\ exit_status' = 1
    /\ UNCHANGED <<smVars, phase, topic_idx, follow_up_count, topic_complete,
                   agent_response, user_answer, document, feedback, files,
                   trace, clsVars, apiVars, clientVars, scope>>

TopicLoop == ProcessTopic \/ LoopEnter \/ LoopExit \/ AskQuestion \/ ReadAnswer
                \/ FollowUpCheck

Next ==
    \/ InitializeState
    \/ ProcessTopic
    \/ LoopEnter
    \/ LoopExit
    \/ AskQuestion
    \/ ReadAnswer
    \/ FollowUpCheck
    \/ StoreSummary
    \/ BestPractices
    \/ GenerateArchitecture
    \/ GenerateMainDocument
    \/ ReviewChoice
    \/ ReadFeedback
    \/ ApplyFeedback
    \/ ViewSection
    \/ SaveDocument
    \/ Interrupt

Spec == Init /\ [][Next]_vars

(***************************************************************************)
(* The classifiers on their own: one oracle outcome, one classifier call   *)
(***************************************************************************)
ClassifierNames == {"needs_follow_up", "is_skip_request", "extract_expertise_level",
                    "assess_technical_complexity"}

RunClassifier(name, outcome) ==
    CASE name = "needs_follow_up" -> needs_follow_up_llm(outcome)
      [] name = "is_skip_request" -> is_skip_request_llm(outcome)
      [] name = "extract_expertise_level" -> extract_expertise_level_llm(outcome)
      [] OTHER -> assess_technical_complexity_llm(outcome)

ClsInit ==
    /\ initialized = FALSE
    /\ chat_history = EmptyDict
    /\ all_conversations = <<>>
    /\ follow_up_counts = EmptyDict
    /\ user_profile = InitialUserProfile
    /\ summaries = EmptyDict
    /\ current_document = EmptyDict
    /\ pc = "initialize_state"
    /\ phase = "startup"
    /\ topic_idx = 0
    /\ follow_up_count = 0
    /\ topic_complete = FALSE
    /\ agent_response = <<>>
    /\ user_answer = <<>>
    /\ document = <<>>
    /\ feedback = <<>>
    /\ files = <<>>
    /\ exit_status = Running
    /\ trace = <<>>
    /\ events = 0
    /\ scope = "run"
    /\ cls_pc = "ready"
    /\ cls_name = None
    /\ cls_outcome \in ClassifierOutcomes
    /\ cls_result = Returned(None)
    /\ ApiIdle
    /\ ClientIdle

Classify ==
    /\ cls_pc = "ready"
    /\ \E name \in ClassifierNames :
         /\ cls_name' = name
         /\ cls_result' = RunClassifier(name, cls_outcome)
    /\ cls_pc' = "returned"
    /\ UNCHANGED <<smVars, runVars, obsVars, cls_outcome, apiVars, clientVars, scope>>

(***************************************************************************)
(* Structured steps: the oracle is asked for JSON                          *)
(***************************************************************************)
\* json.loads on the value call_agent gave: TypeError for None,
\* JSONDecodeError for a text that is not a JSON document, else the object
\* (keys and values as texts)
json_loads(r) ==
    LET t == Strip(r.content)
        str(a) == CASE a = "\"status\"" -> <<"status">>
                    [] a = "\"completed\"" -> <<"completed">>
                    [] OTHER -> <<>>
    IN  IF r.isNone
        THEN [raised |-> TRUE, error |-> "TypeError", value |-> EmptyDict]
        ELSE IF t = <<"{", "}">>
        THEN [raised |-> FALSE, error |-> None, value |-> EmptyDict]
        ELSE IF Len(t) = 5 /\ t[1] = "{" /\ str(t[2]) # <<>> /\ t[3] = ":"
                /\ str(t[4]) # <<>> /\ t[5] = "}"
        THEN [raised |-> FALSE, error |-> None,
              value |-> DictSet(EmptyDict, str(t[2]), str(t[4]))]
        ELSE [raised |-> TRUE, error |-> "JSONDecodeError", value |-> EmptyDict]

\* the for-loop of _parse_text_summary over the lines of s, from the summary
\* collected so far (the strip() before the split only removes lines that
\* hold no colon)
RECURSIVE ParseLines(_, _)
ParseLines(s, summary) ==
    LET nl == {i \in DOMAIN s : s[i] = "\n"}
        e == IF nl = {} THEN Len(s) + 1 ELSE CHOOSE i \in nl : \A j \in nl : i <= j
        line == Strip(SubSeq(s, 1, e - 1))
        cs == {i \in DOMAIN line : line[i] = ":"}
        c == IF cs = {} THEN 0 ELSE CHOOSE i \in cs : \A j \in cs : i <= j
        lowered == Lower(Strip(SubSeq(line, 1, c - 1)))
        key == SelectSeq([i \in DOMAIN lowered |->
                            IF lowered[i] \in {" ", "-"} THEN "_" ELSE lowered[i]],
                         LAMBDA a : a \notin {"(", ")"})
        value == Strip(SubSeq(line, c + 1, Len(line)))
        next == IF c > 0 /\ value # <<>> THEN DictSet(summary, key, value) ELSE summary
    IN  IF e > Len(s) THEN next ELSE ParseLines(SubSeq(s, e + 1, Len(s)), next)

_parse_text_summary(summary_text, pillar_name) ==
    LET summary == ParseLines(summary_text, EmptyDict)
    IN  IF DOMAIN summary # {}
        THEN summary
        ELSE [k \in {<<"pillar_completed">>, <<"information_gathered">>, <<"status">>} |->
                CASE k = <<"pillar_completed">> -> <<pillar_name>>
                  [] k = <<"information_gathered">> -> <<"Basic information collected">>
                  [] OTHER -> <<"completed">>]

\* summarize_pillar: client.call_agent with the client's default model
summarize_pillar(pillar_name, history, outcome) ==
    LET r == call_agent(outcome, "gpt-4o")
        loaded == json_loads(r)
    IN  IF history = <<>>
        THEN Returned(EmptyDict)
        ELSE IF ~loaded.raised
        THEN Returned(loaded.value)
        ELSE IF loaded.error = "JSONDecodeError"
        THEN Returned(_parse_text_summary(r.content, pillar_name))
        ELSE [raised |-> TRUE, value |-> EmptyDict]

\* _parse_text_feedback_llm: get_response with the agent's model (o3); the
\* interpretation is given as its first 100 characters (head) and the rest
_parse_text_feedback_llm(interpretation, outcome) ==
    LET loaded == json_loads(call_agent(outcome, "o3"))
    IN  IF ~loaded.raised
        THEN Returned(loaded.value)
        ELSE IF loaded.error = "JSONDecodeError"
        THEN Returned([sections_to_change |-> <<"unknown">>,
                       change_type |-> "modify",
                       priority |-> "medium",
                       specific_requests |-> <<interpretation.head>>])
        ELSE [raised |-> TRUE, value |-> EmptyDict]

\* what the oracle can do when a structured step calls it
StructuredOutcomes ==
    {OkOutcome(t) : t \in {<<>>, <<"{", "}">>,
                           <<" ", "{", "\"status\"", ":", "\"completed\"", "}">>,
                           <<"{", "\"status\"", ":">>,
                           <<"Budget", ":", " ", "low">>,
                           <<"Cloud", " ", "Provider", ":", "aws", ":", "eu", "\n",
                             "notes", "\n", "Budget", ":", " ">>,
                           <<"no", " ", "pairs">>}}
        \cup {NoneOutcome, ApiError}

\* one structured step is run on one oracle outcome
ParseStructured ==
    /\ cls_pc = "ready"
    /\ \E outcome \in StructuredOutcomes :
         /\ cls_outcome' = outcome
         /\ \/ \E tail \in {<<>>, <<"more">>} :
                 LET arg == [head |-> <<"add", " ", "dr">>, tail |-> tail]
                     r == _parse_text_feedback_llm(arg, outcome)
                 IN  /\ cls_name' = "_parse_text_feedback_llm"
                     /\ cls_result' = [raised |-> r.raised, value |-> r.value,
                                       arg |-> arg.head \o arg.tail]
            \/ \E history \in {<<>>, <<Message("assistant", <<"budget?">>),
                                       Message("user", <<"low">>)>>} :
                 LET r == summarize_pillar("business", history, outcome)
                 IN  /\ cls_name' = "summarize_pillar"
                     /\ cls_result' = [raised |-> r.raised, value |-> r.value,
                                       arg |-> history]
    /\ cls_pc' = "parsed"
    /\ UNCHANGED <<smVars, runVars, obsVars, apiVars, clientVars, scope>>

\* _process_user_answer is run on one non-skipped answer: the profile before,
\* the topic and the two verdicts are kept with the profile it leaves
ProcessUserAnswer ==
    /\ cls_pc = "ready"
    /\ \E level \in ExpertiseLevels \cup {None},
          topic \in {"expertise_assessment", "project_overview", "timeline"},
          stated \in ExpertiseLevels \cup {None}, complexity \in Complexities :
         LET profile == [InitialUserProfile EXCEPT !.expertise_level = level]
         IN  cls_result' =
                [raised |-> FALSE,
                 value |-> process_user_answer(profile, topic, PlainInput, stated, complexity),
                 arg |-> [profile |-> profile, topic |-> topic, stated |-> stated,
                          complexity |-> complexity]]
    /\ cls_name' = "_process_user_answer"
    /\ cls_pc' = "processed"
    /\ UNCHANGED <<smVars, runVars, obsVars, cls_outcome, apiVars, clientVars, scope>>

ClsNext == Classify \/ ParseStructured \/ ProcessUserAnswer

ClsSpec == ClsInit /\ [][ClsNext]_vars

(***************************************************************************)
(* The StateManager and the prompt builders under any sequence of calls    *)
(***************************************************************************)
(***************************************************************************)
(* The client's reasoning storage under any call sequence                  *)
(***************************************************************************)
ClientInit ==
    /\ initialized = FALSE
    /\ chat_history = EmptyDict
    /\ all_conversations = <<>>
    /\ follow_up_counts = EmptyDict
    /\ user_profile = EmptyDict
    /\ summaries = EmptyDict
    /\ current_document = EmptyDict
    /\ pc = "initialize_state"
    /\ phase = "startup"
    /\ topic_idx = 0
    /\ follow_up_count = 0
    /\ topic_complete = FALSE
    /\ agent_response = <<>>
    /\ user_answer = <<>>
    /\ document = <<>>
    /\ feedback = <<>>
    /\ files = <<>>
    /\ exit_status = Running
    /\ trace = <<>>
    /\ events = 0
    /\ scope = "run"
    /\ cls_pc = "idle"
    /\ cls_name = None
    /\ cls_outcome = ApiError
    /\ cls_result = Returned(None)
    /\ ApiIdle
    /\ ClientIdle

StoreReasoningSummary ==
    /\ Len(stored) < MaxStores
    /\ \E response \in
            {[reasoning_summary |-> <<"steps">>, model_used |-> "o3",
              content |-> [head |-> <<"plan">>, tail |-> <<>>]],
             [reasoning_summary |-> <<>>, model_used |-> "o4-mini",
              content |-> [head |-> <<"plan">>, tail |-> <<"dr">>]]} :
         LET entry == StorageEntry(response, EmptyDict, Len(stored) + 1)
         IN  /\ reasoning_storage' = store_reasoning_summary(reasoning_storage, entry)
             /\ stored' = Append(stored, entry)
    /\ recent' = [limit |-> -1, value |-> <<>>]
    /\ UNCHANGED <<smVars, runVars, obsVars, clsVars, apiVars, scope>>

GetRecentReasoningContext ==
    /\ recent.limit = -1
    /\ \E limit \in 0..(MaxStores + 1) :
         recent' = [limit |-> limit,
                    value |-> get_recent_reasoning_context(reasoning_storage, limit)]
    /\ UNCHANGED <<smVars, runVars, obsVars, clsVars, apiVars, reasoning_storage,
                   stored, scope>>

ClientNext == StoreReasoningSummary \/ GetRecentReasoningContext

ClientSpec == ClientInit /\ [][ClientNext]_vars

ApiPillars == {"profiler", "business"}

ApiInit ==
    /\ initialized = FALSE
    /\ chat_history = EmptyDict
    /\ all_conversations = <<>>
    /\ follow_up_counts = EmptyDict
    /\ user_profile = InitialUserProfile
    /\ summaries = EmptyDict
    /\ current_document = EmptyDict
    /\ pc = "initialize_state"
    /\ phase = "startup"
    /\ topic_idx = 0
    /\ follow_up_count = 0
    /\ topic_complete = FALSE
    /\ agent_response = <<>>
    /\ user_answer = <<>>
    /\ document = <<>>
    /\ feedback = <<>>
    /\ files = <<>>
    /\ exit_status = Running
    /\ trace = <<>>
    /\ events = 0
    /\ scope = "run"
    /\ cls_pc = "idle"
    /\ cls_name = None
    /\ cls_outcome = ApiError
    /\ cls_result = Returned(None)
    /\ ApiIdle
    /\ ClientIdle

\* the effect of a call that leaves self.state as r.state: objects handed out by
\* export_state (or taken in by import_state) are shared, so the exported dict sees
\* every in-place change
ApiEffect(op, r) ==
    /\ api_calls' = api_calls + 1
    /\ mgr' = r.state
    /\ exported' = IF exported.alias
                     THEN [alias |-> TRUE, data |-> export_state(r.state)]
                     ELSE exported
    /\ api_result' = [op |-> op, agent |-> None, raised |-> r.raised, value |-> <<>>]
    /\ UNCHANGED <<smVars, runVars, obsVars, clsVars, clientVars, scope>>

ApiInitializeState ==
    /\ api_calls < MaxCalls
    /\ api_calls' = api_calls + 1
    /\ mgr' = InitialInterviewState
    /\ exported' = [exported EXCEPT !.alias = FALSE]
    /\ api_result' = [op |-> "initialize_state", agent |-> None, raised |-> FALSE,
                      value |-> <<>>]
    /\ UNCHANGED <<smVars, runVars, obsVars, clsVars, clientVars, scope>>

ApiAddToChatHistory ==
    /\ api_calls < MaxCalls
    /\ \E p \in ApiPillars, role \in {"assistant", "user"} :
         ApiEffect("add_to_chat_history",
                   sm_add_to_chat_history(mgr, p, role, <<"hello">>))

ApiUpdateUserProfile ==
    /\ api_calls < MaxCalls
    /\ ApiEffect("update_user_profile",
                 sm_update_user_profile(mgr, [expertise_level |-> "novice"]))

ApiSetPillarSummary ==
    /\ api_calls < MaxCalls
    /\ \E p \in {"business", "best_practices"} :
         ApiEffect("set_pillar_summary",
                   sm_set_pillar_summary(mgr, p, [budget |-> "low"]))

ApiUpdateCurrentDocument ==
    /\ api_calls < MaxCalls
    /\ \E section \in {"best_practices", "overview"} :
         ApiEffect("update_current_document",
                   sm_update_current_document(mgr, section, <<"recommendations">>))

ApiIncrementFollowUpCount ==
    /\ api_calls < MaxCalls
    /\ ApiEffect("increment_follow_up_count",
                 sm_increment_follow_up_count(mgr, "profiler", "timeline"))

ApiExportState ==
    /\ api_calls < MaxCalls
    /\ api_calls' = api_calls + 1
    /\ exported' = [alias |-> mgr.set, data |-> export_state(mgr)]
    /\ api_result' = [op |-> "export_state", agent |-> None, raised |-> FALSE,
                      value |-> <<>>]
    /\ UNCHANGED <<mgr, smVars, runVars, obsVars, clsVars, clientVars, scope>>

ApiImportState ==
    /\ api_calls < MaxCalls
    /\ api_calls' = api_calls + 1
    /\ mgr' = import_state(exported.data)
    /\ exported' = [exported EXCEPT !.alias = (DOMAIN exported.data # {})]
    /\ api_result' = [op |-> "import_state", agent |-> None, raised |-> FALSE,
                      value |-> <<>>]
    /\ UNCHANGED <<smVars, runVars, obsVars, clsVars, clientVars, scope>>

\* an agent renders its system prompt
ApiBuildSystemPrompt ==
    /\ api_calls < MaxCalls
    /\ api_calls' = api_calls + 1
    /\ \E agent \in Pillars \cup {"best_practices"} :
         LET r == _build_system_prompt(agent, mgr)
         IN  /\ mgr' = StateAfterContext(mgr, agent)
             /\ api_result' = [op |-> "_build_system_prompt", agent |-> agent,
                               raised |-> r.raised, value |-> r.value]
    /\ UNCHANGED <<exported, smVars, runVars, obsVars, clsVars, clientVars, scope>>

ApiNext ==
    \/ ApiInitializeState
    \/ ApiAddToChatHistory
    \/ ApiUpdateUserProfile
    \/ ApiSetPillarSummary
    \/ ApiUpdateCurrentDocument
    \/ ApiIncrementFollowUpCount
    \/ ApiExportState
    \/ ApiImportState
    \/ ApiBuildSystemPrompt

ApiSpec == ApiInit /\ [][ApiNext]_vars

(***************************************************************************)
(* Properties                                                              *)
(***************************************************************************)
LoopPcs == {"loop", "ask", "input", "follow_up"}

InPillar == phase \in Pillars /\ pc \in LoopPcs

Last(sq) == sq[Len(sq)]

LastIs(evname) == Len(trace) >= 1 /\ Last(trace).ev = evname

IsPrefix(a, b) == Len(a) <= Len(b) /\ SubSeq(b, 1, Len(a)) = a

\* the follow-up count stored for (pillar, topic)
StoredCount(p, t) == get_follow_up_count(follow_up_counts, p, t)

\* C1: in every reachable state the follow-up counter of the topic loop and
\* every follow-up count stored under (pillar, topic) is at most max_follow_ups.
C1_FollowUpCountBounded ==
    /\ follow_up_count <= max_follow_ups
    /\ \A k \in DOMAIN follow_up_counts : follow_up_counts[k] <= max_follow_ups
    /\ \A p \in Pillars : \A i \in DOMAIN FullTopics(p) :
          StoredCount(p, FullTopics(p)[i]) <= max_follow_ups

\* the cap is reached: a topic's stored count and the loop counter are 3
C1_Witness ==
    /\ InPillar
    /\ follow_up_count = max_follow_ups
    /\ StoredCount(phase, CurTopic) = max_follow_ups

\* Progress measure of _process_topic: the iterations the loop can still
\* make, and the position inside the current iteration.
Remaining == IF topic_complete THEN 0 ELSE max_follow_ups - follow_up_count

Rank ==
    4 * Remaining - (CASE pc = "ask" -> 1 [] pc = "input" -> 2
                       [] pc = "follow_up" -> 3 [] OTHER -> 0)

\* C2: processing of a topic terminates: every step inside _process_topic
\* strictly decreases a measure that is never negative, the loop is left only
\* after a skip, a complete verdict or with the counter at max_follow_ups, and
\* once the counter is at max_follow_ups no further question is asked.
C2_TopicTerminates ==
    [][InPillar =>
         /\ Rank >= 0
         /\ (InPillar' /\ topic_idx' = topic_idx /\ phase' = phase) => Rank' < Rank
         /\ (follow_up_count = max_follow_ups) => pc = "loop"
         /\ (pc = "loop" /\ pc' \notin LoopPcs /\ pc' # "aborted") =>
               /\ LastIs("skip_check") \/ LastIs("follow_up_check")
               /\ LastIs("skip_check") => Last(trace).flag
               /\ LastIs("follow_up_check") =>
                     \/ ~Last(trace).flag
                     \/ follow_up_count = max_follow_ups
       ]_vars

\* a topic was left by forced resolution: counter at 3, not complete
C2_Witness ==
    /\ LastIs("topic_end")
    /\ Last(trace).n = max_follow_ups
    /\ ~Last(trace).flag

\* C3: a skip verdict ends the topic in that iteration: the loop is complete
\* with the counter unchanged, the next call is the return of _process_topic
\* (no follow-up check, no further question), and a skip on the first answer
\* ends the topic with the counter at 0 and exactly two new turns.
C3_SkipEndsTopic ==
    LET n == Len(trace)
    IN  /\ (n >= 1 /\ trace[n].ev = "skip_check" /\ trace[n].flag /\ pc # "aborted") =>
              /\ pc = "loop"
              /\ topic_complete
              /\ follow_up_count = trace[n].n
              /\ StoredCount(phase, CurTopic) = trace[n].n
        /\ (n >= 2 /\ trace[n - 1].ev = "skip_check" /\ trace[n - 1].flag) =>
              /\ trace[n].ev = "topic_end"
              /\ trace[n].topic = trace[n - 1].topic
              /\ trace[n].n = trace[n - 1].n
        /\ (n >= 5 /\ trace[n].ev = "topic_end" /\ trace[n - 1].ev = "skip_check"
              /\ trace[n - 1].flag /\ trace[n - 4].ev = "topic_start") =>
              /\ trace[n].n = 0
              /\ StoredCount(trace[n].pillar, trace[n].topic) = 0
              /\ trace[n].len = trace[n - 4].len + 2

\* a topic ended by a skip after a follow-up had been asked
C3_Witness ==
    /\ LastIs("topic_end")
    /\ Len(trace) >= 2
    /\ trace[Len(trace) - 1].ev = "skip_check"
    /\ trace[Len(trace) - 1].flag
    /\ Last(trace).n = 1

\* the turns of pillar p, whether or not the key exists yet
Transcript(h, p) == get_chat_history(h, p)

\* C4: the step that reads the user's answer appends to the pillar's
\* transcript exactly the assistant turn and then the user turn (the answer
\* as cleaned, also when it is empty), hands that same text to the skip check
\* and to the follow-up check, and no other step of the topic loop and no
\* other pillar's transcript changes.
C4_OneExchangePerIteration ==
    [][InPillar =>
         /\ (pc = "input" /\ pc' # "aborted") =>
               /\ Transcript(chat_history', phase) =
                     Transcript(chat_history, phase) \o
                        <<Message("assistant", agent_response),
                          Message("user", user_answer')>>
               /\ Last(trace').ev = "skip_check"
               /\ Last(trace').text = user_answer'
         /\ (pc # "input") =>
               Transcript(chat_history', phase) = Transcript(chat_history, phase)
         /\ (pc = "follow_up" /\ pc' # "aborted") =>
               /\ Last(trace').ev = "follow_up_check"
               /\ Last(trace').text = Last(Transcript(chat_history, phase)).content
         /\ \A q \in Pillars \ {phase} :
               Transcript(chat_history', q) = Transcript(chat_history, q)
       ]_vars

\* an empty answer was recorded as the user turn and reached the follow-up check
C4_Witness ==
    /\ LastIs("follow_up_check")
    /\ Last(trace).text = <<>>
    /\ phase = "business"
    /\ Len(Transcript(chat_history, "business")) >= 2
    /\ Last(Transcript(chat_history, "business")) = Message("user", <<>>)

Alternates(h) ==
    \A i \in DOMAIN h : h[i].role = IF i % 2 = 1 THEN "assistant" ELSE "user"

\* C5: every step extends each pillar's transcript at its end only, and the
\* roles of every transcript alternate assistant, user, assistant, user, ...
C5_AppendOnlyAlternating ==
    [][\A p \in Pillars :
         /\ IsPrefix(Transcript(chat_history, p), Transcript(chat_history', p))
         /\ Alternates(Transcript(chat_history', p))
         /\ p \in DOMAIN chat_history => p \in DOMAIN chat_history'
      ]_vars

\* two pillars hold transcripts, one of them with several exchanges
C5_Witness ==
    /\ Len(Transcript(chat_history, "profiler")) >= 4
    /\ Len(Transcript(chat_history, "business")) >= 2

\* the documented safe default of each classifier
SafeDefault(name) ==
    CASE name = "needs_follow_up" -> Returned(FALSE)
      [] name = "is_skip_request" -> Returned(FALSE)
      [] name = "extract_expertise_level" -> Returned(None)
      [] OTHER -> Returned("medium")

\* C6: when the oracle call fails (the client raises, or call_agent swallows
\* the error and returns its fallback text) each classifier returns exactly
\* its safe default and raises nothing.
C6_FailureGivesSafeDefault ==
    (cls_pc = "returned" /\ cls_outcome.kind \in {"api_error", "raise"}) =>
        cls_result = SafeDefault(cls_name)

\* the skip classifier returned after call_agent had swallowed an API error
C6_Witness ==
    /\ cls_pc = "returned"
    /\ cls_outcome.kind = "api_error"
    /\ cls_name = "is_skip_request"
    /\ cls_result = Returned(FALSE)

\* the enumerated tokens of each classifier
EnumTokens(name) ==
    CASE name = "needs_follow_up" -> {"FOLLOW_UP_NEEDED", "COMPLETE"}
      [] name = "is_skip_request" -> {"SKIP", "ANSWER"}
      [] name = "extract_expertise_level" -> {"NOVICE", "INTERMEDIATE", "ADVANCED", "UNCLEAR"}
      [] OTHER -> {"LOW", "MEDIUM", "HIGH"}

\* the enumerated tokens that can be extracted from the upper-cased response
Extracted(name, content) == {t \in EnumTokens(name) : Contains(t, Upper(content))}

\* C7: a classifier never raises, and it returns a non-default outcome only
\* when exactly one of its enumerated tokens can be extracted from the
\* upper-cased oracle response.
C7_NonDefaultNeedsExactlyOneToken ==
    cls_pc = "returned" =>
        /\ ~cls_result.raised
        /\ cls_result # SafeDefault(cls_name) =>
              /\ cls_outcome.kind = "ok"
              /\ Cardinality(Extracted(cls_name, cls_outcome.content)) = 1

\* the last two turns of a transcript
LastTwo(h) == SubSeq(h, Len(h) - 1, Len(h))

\* C8: when the oracle call for a question fails, the question is the fixed
\* fallback text, the user is prompted, the fallback text is recorded as the
\* assistant turn before the user's answer, and the skip check and the
\* follow-up check of that answer take their usual course.
C8_FallbackQuestionIsAsked ==
    [][InPillar =>
         /\ (pc = "ask" /\ pc' # "aborted" /\ ~Last(trace').flag) =>
               /\ agent_response' = fallback_message
               /\ pc' = "input"
         /\ (pc = "input" /\ pc' # "aborted" /\ agent_response = fallback_message) =>
               /\ LastTwo(Transcript(chat_history', phase)) =
                     <<Message("assistant", fallback_message),
                       Message("user", user_answer')>>
               /\ Last(trace').ev = "skip_check"
               /\ pc' = IF Last(trace').flag THEN "loop" ELSE "follow_up"
               /\ topic_complete' = Last(trace').flag
         /\ (pc = "follow_up" /\ pc' # "aborted" /\ agent_response = fallback_message) =>
               /\ Last(trace').ev = "follow_up_check"
               /\ pc' = "loop"
               /\ topic_complete' = ~Last(trace').flag
               /\ follow_up_count' = follow_up_count + Cost(Last(trace').flag)
       ]_vars

\* after a fallback question the answer was judged to need a follow-up
C8_Witness ==
    /\ LastIs("follow_up_check")
    /\ Last(trace).flag
    /\ agent_response = fallback_message
    /\ follow_up_count = 1
    /\ LastTwo(Transcript(chat_history, phase))[1] = Message("assistant", fallback_message)

IsPhaseStart(e) == e.ev = "phase_start"
IsPhaseEnd(e) == e.ev = "phase_end"

PillarOf(sq) == [i \in DOMAIN sq |-> sq[i].pillar]
TopicOf(sq) == [i \in DOMAIN sq |-> sq[i].topic]

\* the phases started / completed so far, in order
PhasesStarted == PillarOf(SelectSeq(trace, IsPhaseStart))
PhasesEnded == PillarOf(SelectSeq(trace, IsPhaseEnd))

\* C9: the phases of a run start in the order profiler, business, app,
\* tribal, best practices, document generation, review loop, save; each
\* starts only when the one before it has completed, none is skipped or
\* repeated, and a run that finishes has completed all of them.
C9_PhaseOrder ==
    LET started == PhasesStarted
        ended == PhasesEnded
    IN  /\ IsPrefix(started, PhaseOrder)
        /\ IsPrefix(ended, started)
        /\ Len(started) - Len(ended) <= 1
        /\ (started # <<>>) => phase = Last(started)
        /\ (pc = "done") => ended = PhaseOrder

\* the run has finished
C9_Witness ==
    /\ pc = "done"
    /\ PhasesEnded = PhaseOrder
    /\ Len(files) = 2

TopicsStarted(p) ==
    LET Test(e) == e.ev = "topic_start" /\ e.pillar = p
    IN  TopicOf(SelectSeq(trace, Test))

TopicsEnded(p) ==
    LET Test(e) == e.ev = "topic_end" /\ e.pillar = p
    IN  TopicOf(SelectSeq(trace, Test))

PhaseHasEnded(p) ==
    \E i \in DOMAIN trace : trace[i].ev = "phase_end" /\ trace[i].pillar = p

\* C10: within a pillar the topics are processed in the order of the
\* pillar's topic list, each once; a question is asked only for the topic
\* started last, and only when every topic before it has terminated; when the
\* pillar is done every topic of its list has been processed.
C10_TopicsInListOrder ==
    \A p \in Pillars :
        LET started == TopicsStarted(p)
            ended == TopicsEnded(p)
        IN  /\ IsPrefix(started, FullTopics(p))
            /\ IsPrefix(ended, started)
            /\ Len(started) - Len(ended) <= 1
            /\ (LastIs("ask") /\ Last(trace).pillar = p) =>
                  /\ Len(started) = Len(ended) + 1
                  /\ Last(trace).topic = Last(started)
            /\ PhaseHasEnded(p) =>
                  /\ started = Topics(p)
                  /\ ended = Topics(p)

\* the first question of a pillar's second topic has been asked
C10_Witness ==
    /\ LastIs("ask")
    /\ Last(trace).pillar = "business"
    /\ Last(trace).topic = BUSINESS_TOPICS[2]
    /\ TopicsEnded("business") = <<BUSINESS_TOPICS[1]>>

\* the number of set_pillar_summary calls made for pillar p in the calls t
SummaryWrites(t, p) ==
    Cardinality({i \in DOMAIN t : t[i].ev = "summary" /\ t[i].pillar = p})

\* position of a step of main() in the program order
PhaseIndex(ph) == CHOOSE k \in DOMAIN PhaseOrder : PhaseOrder[k] = ph

\* C11: the summary of a pillar is written at most once in a run, and exactly
\* once by the time a later pillar asks a question; the write happens when
\* every topic of the pillar has terminated and no later pillar has asked a
\* question; outside that write the stored summary of the pillar never
\* changes, whatever later pillar, gap-filling, document generation or
\* feedback step runs.
C11_SummaryWrittenOnce ==
    [][initialized =>
         \A p \in Pillars :
            LET before == SummaryWrites(trace, p)
                after == SummaryWrites(trace', p)
            IN  /\ after <= 1
                /\ (after > before) =>
                      /\ phase = p /\ pc = "summary"
                      /\ TopicsEnded(p) = Topics(p)
                      /\ \A i \in DOMAIN trace' :
                            trace'[i].ev = "ask" =>
                               PhaseIndex(trace'[i].pillar) <= PhaseIndex(p)
                /\ (after = before) => summaries'[p] = summaries[p]
                /\ (pc = "ask" /\ PhaseIndex(p) < PhaseIndex(phase)) => before = 1
       ]_vars

\* every pillar summary has been written, the feedback loop has revised the
\* document, and the business summary still holds what the pillar stored
C11_Witness ==
    /\ pc = "menu"
    /\ document = RevisedText
    /\ \A p \in Pillars : SummaryWrites(trace, p) = 1
    /\ "budget" \in DOMAIN summaries["business"]
    /\ summaries["profiler"].project_description # NoText

ProfileFields == {"expertise_level", "project_description", "gauged_complexity"}

\* the profile fields whose value differs between two profiles
ChangedFields(a, b) == {f \in ProfileFields : a[f] # b[f]}

\* C12: the user profile keeps its three fields throughout; a step changes it
\* only when the profiler's topic loop has read a non-skipped answer to
\* expertise_assessment (then only expertise_level changes, to a stated
\* level) or to project_overview (then project_description becomes the
\* answer, gauged_complexity is set and expertise_level stays); every
\* non-skipped answer to project_overview does set both fields.
C12_ProfileFrame ==
    [][/\ DOMAIN user_profile' = ProfileFields
       /\ (user_profile' # user_profile) =>
             /\ phase = "profiler" /\ pc = "input"
             /\ Last(trace').ev = "skip_check" /\ ~Last(trace').flag
             /\ CurTopic \in {"expertise_assessment", "project_overview"}
             /\ (CurTopic = "expertise_assessment") =>
                   /\ ChangedFields(user_profile, user_profile') = {"expertise_level"}
                   /\ user_profile'.expertise_level \in ExpertiseLevels
             /\ (CurTopic = "project_overview") =>
                   "expertise_level" \notin ChangedFields(user_profile, user_profile')
       /\ (phase = "profiler" /\ pc = "input" /\ pc' = "follow_up"
              /\ CurTopic = "project_overview") =>
             /\ user_profile'.project_description = SomeText(user_answer')
             /\ user_profile'.gauged_complexity \in
                   {GaugedComplexity(c, user_profile.expertise_level) : c \in Complexities}
      ]_vars

\* the profiler stored a stated level and then judged the project more
\* complex than stated; a later pillar is running with the profile intact
C12_Witness ==
    /\ phase = "business"
    /\ pc = "input"
    /\ user_profile.expertise_level = "novice"
    /\ user_profile.gauged_complexity = "higher than stated"
    /\ user_profile.project_description # NoText

\* C13: no step of a pillar's topic loop changes current_document or the
\* document text; current_document changes only in the gap-filling step,
\* which stores the oracle's text under the best_practices section and
\* touches no other section; the document text changes only when document
\* generation returns and when apply_feedback returns.
C13_DocumentFrame ==
    [][/\ InPillar => (current_document' = current_document /\ document' = document)
       /\ (current_document' # current_document) =>
             /\ phase = "best_practices" /\ pc = "best_practices"
             /\ DOMAIN current_document' = (DOMAIN current_document) \cup {"best_practices"}
             /\ \A k \in DOMAIN current_document :
                   k # "best_practices" => current_document'[k] = current_document[k]
             /\ current_document'["best_practices"] \in {BestPracticesText, fallback_message}
       /\ (document' # document) =>
             \/ phase = "document_generation" /\ pc = "main_document"
             \/ phase = "review_loop" /\ pc = "apply"
      ]_vars

\* gap-filling stored its section, the document was generated and then
\* revised once, after all four topic loops had run
C13_Witness ==
    /\ pc = "menu"
    /\ current_document = DictSet(EmptyDict, "best_practices", BestPracticesText)
    /\ document = RevisedText
    /\ \A p \in Pillars : Len(Transcript(chat_history, p)) >= 2

\* the menu choices read so far
ChoicesMade ==
    LET Test(e) == e.ev = "choice"
    IN  TopicOf(SelectSeq(trace, Test))

\* C14: the review loop is left (other than by an abort of the run) only by
\* the step that reads choice "1"; a step that reads any other choice stays
\* in the loop, whatever the number of choices made before, and every path
\* from it leads back to the menu: choice "2" reads the feedback and, when it
\* is not blank, applies it, choice "3" reads a section name, and an invalid
\* choice shows the menu at once.
C14_ReviewEndsOnlyOnAccept ==
    [][(phase = "review_loop" /\ pc' # "aborted") =>
         /\ (phase' # phase) =>
               /\ pc = "menu"
               /\ Len(trace') >= 3
               /\ trace'[Len(trace') - 2].ev = "choice"
               /\ trace'[Len(trace') - 2].topic = "1"
         /\ (pc = "menu" /\ Last(trace').ev = "choice") =>
               /\ phase' = phase
               /\ Last(trace').topic # "1"
               /\ pc' = CASE Last(trace').topic = "2" -> "feedback"
                           [] Last(trace').topic = "3" -> "section"
                           [] OTHER -> "menu"
         /\ (pc = "feedback") => pc' \in {"apply", "menu"}
         /\ (pc \in {"apply", "section"}) => pc' = "menu"
       ]_vars

\* the menu is shown again after a change request and an invalid choice
C14_Witness ==
    /\ phase = "review_loop"
    /\ pc = "menu"
    /\ ChoicesMade = <<"2", "x">>
    /\ document = RevisedText

\* the positions of the apply_feedback calls in the calls made so far
ApplyCalls == {i \in DOMAIN trace : trace[i].ev = "apply_feedback"}

\* the document version produced by the last apply_feedback call is the one
\* review_loop holds
RevisionIsCurrent ==
    (ApplyCalls # {} /\ phase = "review_loop") =>
        document = trace[CHOOSE i \in ApplyCalls : \A j \in ApplyCalls : j <= i].text

\* C15: every feedback that is applied has been interpreted first (the call
\* that applies it directly follows the call that interprets it), and the
\* text the apply call returns is the document review_loop then holds.
C15_FeedbackInterpretedThenApplied ==
    /\ \A i \in ApplyCalls : i > 1 /\ trace[i - 1].ev = "interpret_feedback"
    /\ RevisionIsCurrent

\* C16: when the run has been aborted by an interrupt, its exit status is
\* non-zero and no file has been written.
C16_InterruptPersistsNothing ==
    (pc = "aborted") =>
        /\ exit_status \notin {Running, 0}
        /\ files = <<>>

\* the counter of the local variable and of the state manager move by d for
\* (p, t), and no other (pillar, topic) changes its stored count
CounterStep(p, t, d) ==
    /\ follow_up_count' = follow_up_count + d
    /\ get_follow_up_count(follow_up_counts', p, t) = StoredCount(p, t) + d
    /\ \A q \in Pillars : \A i \in DOMAIN FullTopics(q) :
          <<q, FullTopics(q)[i]>> # <<p, t>> =>
             get_follow_up_count(follow_up_counts', q, FullTopics(q)[i]) =
                StoredCount(q, FullTopics(q)[i])

\* C17: when _process_topic is entered the topic's counter (local and stored)
\* is 0; while the topic is processed the counter moves only by +1, exactly
\* when an answer is judged to need a follow-up; the stored count of every
\* other (pillar, topic) is unchanged by each step.
C17_FollowUpCounterPerTopic ==
    [][ /\ (pc = "process_topic") =>
              /\ follow_up_count' = 0
              /\ get_follow_up_count(follow_up_counts', phase, CurTopic) = 0
        /\ (InPillar /\ pc = "follow_up" /\ pc' = "loop") =>
              CounterStep(phase, CurTopic, Cost(Last(trace').flag))
        /\ (InPillar /\ ~(pc = "follow_up" /\ pc' = "loop")) =>
              CounterStep(phase, CurTopic, 0)
      ]_vars

\* the second topic of a pillar has had a follow-up after the first one had one
C17_Witness ==
    /\ InPillar
    /\ topic_idx = 2
    /\ follow_up_count = 1
    /\ StoredCount(phase, CurTopic) = 1
    /\ StoredCount(phase, Topics(phase)[1]) = 1

\* C18: for every initialized state of the StateManager, importing what
\* export_state returns yields the same state: the same transcripts per pillar
\* in the same order, the same user profile, summaries, follow-up counts and
\* current document.
C18_ExportImportRoundTrip ==
    mgr.set =>
        LET back == import_state(export_state(mgr))
        IN  /\ back.set
            /\ back.chat_history = mgr.chat_history
            /\ back.summaries = mgr.summaries
            /\ back.state = mgr.state

\* a state with transcripts for two pillars has been exported and imported
C18_Witness ==
    /\ api_result.op = "import_state"
    /\ mgr.set
    /\ "user_profile" \in DOMAIN mgr.state
    /\ \A p \in ApiPillars : Len(get_chat_history(mgr.chat_history, p)) >= 1
    /\ Len(mgr.state.all_conversations) >= 2

\* the step is a call of _build_system_prompt
RenderStep == api_calls' = api_calls + 1 /\ api_result'.op = "_build_system_prompt"

C20_MissingPlaceholderFallsBack ==
    [][ RenderStep =>
          LET template == PromptTemplate(api_result'.agent)
              c == build_system_prompt_context(mgr)
              context == AgentContext(api_result'.agent, c.value)
              text == api_result'.value
          IN  /\ ~mgr.set => (~c.raised /\ MissingFields(template, context) # {})
              /\ (~c.raised /\ MissingFields(template, context) # {}) =>
                    /\ ~api_result'.raised
                    /\ Len(text) = Len(template) + 2
                    /\ SubSeq(text, 1, Len(template)) = template
                    /\ text[Len(template) + 1] = Lit("CONTEXT:")
                    /\ text[Len(template) + 2] = Lit(json_dumps(context))
      ]_vars

\* the best-practices prompt was rendered before initialize_state: the
\* fallback text ends with a context that holds the checklist only
C20_Witness ==
    /\ api_result.op = "_build_system_prompt"
    /\ api_result.agent = "best_practices"
    /\ ~mgr.set
    /\ ~api_result.raised
    /\ Len(api_result.value) = Len(BEST_PRACTICES_PROMPT) + 2
    /\ Last(api_result.value) =
          Lit(<<<<"infrastructure_checklist", INFRASTRUCTURE_CHECKLIST>>>>)

\* C21: a structured step whose oracle output is not a JSON document does not
\* fail: _parse_text_feedback_llm returns the default structure with the
\* prefix of the text, summarize_pillar returns a non-empty structure (the
\* pairs of the text lines or the three-key default).
C21_UnparsableOutputFallsBack ==
    (cls_pc = "parsed" /\ cls_result.arg # <<>>
       /\ json_loads(call_agent(cls_outcome,
              IF cls_name = "summarize_pillar" THEN "gpt-4o" ELSE "o3")).raised) =>
        /\ ~cls_result.raised
        /\ cls_name = "_parse_text_feedback_llm" =>
              /\ cls_result.value.sections_to_change = <<"unknown">>
              /\ cls_result.value.change_type = "modify"
              /\ cls_result.value.priority = "medium"
              /\ cls_result.value.specific_requests = <<<<"add", " ", "dr">>>>
        /\ cls_name = "summarize_pillar" => DOMAIN cls_result.value # {}

\* the oracle questions and user inputs that took place, in the order they
\* took place, without a question whose answer has not been read yet
Exchanged ==
    LET turns == SelectSeq(trace, LAMBDA e : e.ev \in {"ask", "answer"})
    IN  IF turns # <<>> /\ Last(turns).ev = "ask"
        THEN SubSeq(turns, 1, Len(turns) - 1)
        ELSE turns

TurnEntry(e) ==
    ConvEntry(e.pillar, IF e.ev = "ask" THEN "assistant" ELSE "user", e.text)

\* C22: the entries of every pillar transcript and of all_conversations are
\* in the order in which the oracle calls and user inputs that produced them
\* took place: one entry per call or input, none reordered.
C22_TranscriptInEventOrder ==
    /\ all_conversations = [i \in DOMAIN Exchanged |-> TurnEntry(Exchanged[i])]
    /\ \A p \in Pillars :
          LET mine == SelectSeq(Exchanged, LAMBDA e : e.pillar = p)
          IN  Transcript(chat_history, p) =
                [i \in DOMAIN mine |-> Message(TurnEntry(mine[i]).role, mine[i].text)]

C22_Witness ==
    /\ Len(all_conversations) >= 4
    /\ all_conversations[1].content # all_conversations[3].content
    /\ \E i \in DOMAIN all_conversations : all_conversations[i].agent = "business"
    /\ pc = "done"

\* the last n entries of s (all of s when it holds fewer)
LastN(s, n) == SubSeq(s, IF Len(s) > n THEN Len(s) - n + 1 ELSE 1, Len(s))

\* C23: reasoning_storage holds at most 10 entries, the most recently stored
\* ones in the order they were stored, and get_recent_reasoning_context(limit)
\* returns the last min(limit, size) of them for every limit >= 0.
C23_StorageKeepsLastTen ==
    /\ Len(reasoning_storage) <= 10
    /\ reasoning_storage = LastN(stored, 10)
    /\ recent.limit >= 0 => recent.value = LastN(reasoning_storage, recent.limit)

\* C24: a topic takes at most max_follow_ups question/answer iterations, one
\* initial question and at most two follow-up questions; when the third
\* consecutive answer is judged to need a follow-up the counter becomes 3 and
\* the topic ends without that follow-up question being asked.
C24_AtMostThreeIterations ==
    LET n == Len(trace)
        SameTopic(i, j) == \A k \in i..j : trace[k].ev # "topic_start"
    IN  /\ \A i \in 1..n : trace[i].ev = "ask" =>
              /\ trace[i].n < max_follow_ups
              /\ \A j \in (i + 1)..n :
                    (trace[j].ev = "ask" /\ SameTopic(i, j)) => trace[i].n < trace[j].n
        /\ \A i \in 1..n :
              (trace[i].ev = "follow_up_check" /\ trace[i].flag
                 /\ trace[i].n = max_follow_ups - 1) =>
                 /\ i = n => /\ follow_up_count = max_follow_ups
                             /\ pc = "loop"
                 /\ i < n => /\ trace[i + 1].ev = "topic_end"
                             /\ trace[i + 1].topic = trace[i].topic
                             /\ trace[i + 1].n = max_follow_ups
                             /\ ~trace[i + 1].flag

\* a topic with three questions whose third answer needed a follow-up has ended
C24_Witness ==
    LET n == Len(trace)
    IN  /\ n >= 14
        /\ trace[n].ev = "topic_end"
        /\ trace[n - 1].ev = "follow_up_check" /\ trace[n - 1].flag
        /\ trace[n - 1].n = max_follow_ups - 1
        /\ trace[n - 13].ev = "topic_start"
        /\ Cardinality({i \in (n - 13)..n : trace[i].ev = "ask"}) = max_follow_ups

\* C25: the two turns of an iteration are appended together after the answer
\* has been read: wherever the run stands (waiting for the oracle, waiting for
\* input, or ended by an interrupt or a failure) every pillar transcript has
\* even length and holds one assistant/user pair per answer read, so a
\* question whose answer was not read is not in the transcript.
C25_TurnsAppendedInPairs ==
    \A p \in Pillars :
       LET t == Transcript(chat_history, p)
           answers == SelectSeq(trace, LAMBDA e : e.ev = "answer" /\ e.pillar = p)
           asks == SelectSeq(trace, LAMBDA e : e.ev = "ask" /\ e.pillar = p)
       IN  /\ Len(t) % 2 = 0
           /\ Len(t) = 2 * Len(answers)
           /\ \A i \in DOMAIN answers :
                 /\ t[2 * i - 1] = Message("assistant", asks[i].text)
                 /\ t[2 * i] = Message("user", answers[i].text)
           /\ Len(asks) \in {Len(answers), Len(answers) + 1}
           /\ (p = phase /\ pc = "input") => Len(asks) = Len(answers) + 1

\* the run was interrupted while it waited for the answer to a follow-up
\* question: the question is not in the transcript
C25_Witness ==
    /\ pc = "aborted"
    /\ phase \in Pillars
    /\ LastIs("ask")
    /\ Last(trace).n >= 1
    /\ Len(Transcript(chat_history, phase)) >= 2

\* C26: when the oracle call of apply_feedback fails, apply_feedback returns
\* the fixed apology text and the review loop takes it as the document under
\* review: until a later revision the document shown at every menu choice, and
\* the document saved at the end, is the apology text and not the previous
\* version.
C26_FailedRevisionReplacesDocument ==
    LET n == Len(trace)
    IN  \A i \in 1..n :
          (trace[i].ev = "apply_feedback" /\ ~trace[i].flag) =>
             LET latest == \A k \in (i + 1)..n : trace[k].ev # "apply_feedback"
             IN  /\ trace[i].text = fallback_message
                 /\ \A j \in (i + 1)..n :
                       (trace[j].ev = "choice"
                          /\ \A k \in (i + 1)..j : trace[k].ev # "apply_feedback") =>
                          trace[j].text = fallback_message
                 /\ latest => document = fallback_message
                 /\ (latest /\ pc = "done") =>
                       \E f \in DOMAIN files :
                          files[f] = FileEntry("infrastructure_plan", fallback_message)

\* the apology text of a failed revision was saved as the final document
C26_Witness ==
    /\ pc = "done"
    /\ \E i \in DOMAIN trace : trace[i].ev = "apply_feedback" /\ ~trace[i].flag
    /\ Last(files).content = fallback_message
    /\ Last(files).content # PlanText

\* the step reads an answer in the profiler's topic loop
ProfilerAnswerStep ==
    /\ phase = "profiler" /\ pc = "input"
    /\ Len(trace') = Len(trace) + 2
    /\ Last(trace').ev = "skip_check"

\* the non-skipped answers given during project_overview, in order
OverviewAnswers(tr) ==
    SelectSeq(tr, LAMBDA e : /\ e.ev = "skip_check" /\ ~e.flag
                             /\ e.pillar = "profiler" /\ e.topic = "project_overview")

\* what holds of the profile whatever the topic of the answer
ProfileUpdatedBeforeDecision ==
    /\ (ProfilerAnswerStep /\ Last(trace').flag) => user_profile' = user_profile
    /\ (ProfilerAnswerStep /\ ~Last(trace').flag /\ CurTopic = "project_overview") =>
          /\ pc' = "follow_up"
          /\ user_profile'.project_description = SomeText(user_answer')
          /\ user_profile'.gauged_complexity # None
    /\ (pc = "follow_up") => user_profile' = user_profile
    /\ user_profile'.project_description =
          IF OverviewAnswers(trace') = <<>>
          THEN NoText
          ELSE SomeText(Last(OverviewAnswers(trace')).text)

C28_ReviewDocumentFrame ==
    LET n == Len(trace)
        Applied(i) == {k \in 1..(i - 1) : trace[k].ev = "apply_feedback"}
        DocAt(i) == IF Applied(i) = {}
                    THEN files[1].content
                    ELSE trace[CHOOSE k \in Applied(i) : \A m \in Applied(i) : m <= k].text
    IN  /\ \A i \in 1..n : trace[i].ev = "apply_feedback" =>
              /\ i >= 3
              /\ trace[i - 1].ev = "feedback" /\ Strip(trace[i - 1].text) # <<>>
              /\ trace[i - 2].ev = "choice" /\ trace[i - 2].topic = "2"
        /\ \A i \in 1..n : trace[i].ev = "choice" => trace[i].text = DocAt(i)
        /\ \A i \in 1..(n - 1) :
              \/ trace[i].ev = "choice" /\ trace[i].topic \notin {"1", "2", "3"}
              \/ trace[i].ev = "section"
              \/ trace[i].ev = "feedback" /\ Strip(trace[i].text) = <<>>
              => trace[i + 1].ev = "choice" /\ trace[i + 1].text = DocAt(i)
        /\ phase = "review_loop" => document = DocAt(n + 1)
        /\ pc = "done" => Last(files) = FileEntry("infrastructure_plan", DocAt(n + 1))

\* the generated document was saved after a change request with blank feedback
C28_Witness ==
    /\ pc = "done"
    /\ \E i \in DOMAIN trace : trace[i].ev = "feedback" /\ trace[i].text = <<" ", "\t">>
    /\ Last(files).content = files[1].content
    /\ Len(files) = 2

\* C29: on an initialized state all_conversations mirrors the transcripts:
\* its length is the sum of the lengths of the pillar transcripts, and its
\* entries with agent = P, in order, have the roles and contents of P's
\* transcript.
C29_AllConversationsMirrorsTranscripts ==
    (mgr.set /\ "all_conversations" \in DOMAIN mgr.state) =>
        LET ac == mgr.state.all_conversations
            h == mgr.chat_history
            RECURSIVE Total(_)
            Total(ps) == IF ps = {} THEN 0
                         ELSE LET p == CHOOSE q \in ps : TRUE
                              IN  Len(h[p]) + Total(ps \ {p})
            Of(p) == SelectSeq(ac, LAMBDA e : e.agent = p)
        IN  /\ Len(ac) = Total(DOMAIN h)
            /\ \A p \in DOMAIN h :
                  h[p] = [i \in DOMAIN Of(p) |-> Message(Of(p)[i].role, Of(p)[i].content)]

\* two pillars' messages are interleaved in all_conversations
C29_Witness ==
    /\ mgr.set /\ "all_conversations" \in DOMAIN mgr.state
    /\ Len(mgr.state.all_conversations) >= 3
    /\ mgr.state.all_conversations[1].agent = "profiler"
    /\ mgr.state.all_conversations[2].agent = "business"
    /\ mgr.state.all_conversations[3] = ConvEntry("profiler", "user", <<"hello">>)
    /\ api_result.op = "add_to_chat_history"

\* C30: after a non-skip answer to project_overview gauged_complexity is
\* "higher than stated" exactly when the complexity verdict is high and the
\* stated expertise is novice or intermediate, "lower than stated" exactly
\* when the verdict is low and the stated expertise is advanced, and "matches
\* stated" in every other case, also when no expertise level was established;
\* it is never left unset.
C30_GaugedComplexity ==
    (cls_pc = "processed" /\ cls_result.arg.topic = "project_overview") =>
        LET g == cls_result.value.gauged_complexity
            c == cls_result.arg.complexity
            lvl == cls_result.arg.profile.expertise_level
            higher == c = "high" /\ lvl \in {"novice", "intermediate"}
            lower == c = "low" /\ lvl = "advanced"
        IN  /\ g = "higher than stated" <=> higher
            /\ g = "lower than stated" <=> lower
            /\ g = "matches stated" <=> (~higher /\ ~lower)
            /\ g \in {"higher than stated", "lower than stated", "matches stated"}
            /\ lvl = None => g = "matches stated"

\* a complex project described with no expertise level established
C30_Witness ==
    /\ cls_pc = "processed"
    /\ cls_result.arg.topic = "project_overview"
    /\ cls_result.arg.complexity = "high"
    /\ cls_result.arg.profile.expertise_level = None
    /\ cls_result.value.gauged_complexity = "matches stated"

====
